---- MODULE Spec2Model ----
(***************************************************************************)
(* A model of warrant-dev/apirunner: the suite executor (ExecuteSuite),    *)
(* the test case executor (executeTest), the structural comparison         *)
(* (compareObjects over go-test/deep), the value flattener (flatten) and   *)
(* the template resolver (templateReplace) of src/suite.go, and the loop   *)
(* of Run over the suite files (src/run.go).                               *)
(*                                                                         *)
(* Spec is one call of ExecuteSuite, SpecRun a call of Run; SpecTR, SpecFL *)
(* and SpecCmp call templateReplace, flatten and the comparison of a       *)
(* response on their own, over bounded sets of arguments.                  *)
(*                                                                         *)
(* Strings are sequences of one-character strings, so that matching,       *)
(* trimming, replacing, JSON encoding and JSON decoding are computed on    *)
(* the text as the Go code computes them.                                  *)
(***************************************************************************)
EXTENDS Integers, Sequences, FiniteSets, TLC

VARIABLES
    \* ExecuteSuite
    suite,          \* the parsed TestSuiteSpec: [Skip, IgnoredFields, Tests]
    pc,             \* "load" | "run" | "done" | "rejected" | "panic"
    idx,            \* number of tests the loop of ExecuteSuite has finished
    extractedFields,\* the memoized attrs map shared by the tests of the suite
    passed, failed, skipped, totalTests,
    returned,       \* what ExecuteSuite returned: [err, result]
    calls,          \* the requests handed to HttpClient.Do, in order
    trail,          \* per executed test: what executeTest did (for the claims)
    \* templateReplace called on its own
    trS, trStore, trOut, trPc,
    \* flatten, or the comparison of a decoded payload, called on its own:
    \* the arguments, what the call gave, "ready" | "done"
    unitCall, unitOut, unitPc,
    \* Run: the suite files found, the number of files done, the results
    \* collected, the store each finished ExecuteSuite call left, the position
    \* of Run and what it returned
    runFiles, runPos, runResults, runStores, runPc, runReturned

suiteVars == <<suite, pc, idx, extractedFields, passed, failed, skipped,
               totalTests, returned, calls, trail>>
trVars == <<trS, trStore, trOut, trPc>>
unitVars == <<unitCall, unitOut, unitPc>>
runVars == <<runFiles, runPos, runResults, runStores, runPc, runReturned>>
vars == <<suiteVars, trVars, unitVars, runVars>>

-----------------------------------------------------------------------------
(* Text helpers                                                            *)

\* regexp \s : [\t\n\f\r ]
IsSpace(c) == c \in {" ", "\t", "\n"}

RECURSIVE SkipSpace(_, _)
SkipSpace(s, i) ==
    IF i <= Len(s) /\ IsSpace(s[i]) THEN SkipSpace(s, i + 1) ELSE i

RECURSIVE SkipNonSpace(_, _)
SkipNonSpace(s, i) ==
    IF i <= Len(s) /\ ~IsSpace(s[i]) THEN SkipNonSpace(s, i + 1) ELSE i

OpenAt(s, i) == i + 1 <= Len(s) /\ s[i] = "{" /\ s[i + 1] = "{"
CloseAt(s, i) == i + 1 <= Len(s) /\ s[i] = "}" /\ s[i + 1] = "}"

\* The greedy [^\s]+ gives back characters until "}}" follows: the largest
\* k < run length with "}}" at p + k.
RECURSIVE LastClose(_, _, _)
LastClose(s, p, k) ==
    IF k < 1 THEN 0
    ELSE IF CloseAt(s, p + k) THEN p + k + 1
    ELSE LastClose(s, p, k - 1)

\* The last index of the leftmost-first match of {{\s*[^\s]+\s*}} that starts
\* at i, or 0 when the pattern does not match at i.
MatchEnd(s, i) ==
    IF ~OpenAt(s, i) THEN 0
    ELSE LET p == SkipSpace(s, i + 2)
             q == SkipNonSpace(s, p)
             w == SkipSpace(s, q)
         IN IF q = p THEN 0
            ELSE IF CloseAt(s, w) THEN w + 1
            ELSE LastClose(s, p, q - p - 1)

\* regexp.FindAll(s, -1): the successive non-overlapping matches.
RECURSIVE FindAllFrom(_, _)
FindAllFrom(s, i) ==
    IF i > Len(s) THEN <<>>
    ELSE LET e == MatchEnd(s, i)
         IN IF e = 0 THEN FindAllFrom(s, i + 1)
            ELSE <<SubSeq(s, i, e)>> \o FindAllFrom(s, e + 1)

FindAll(s) == FindAllFrom(s, 1)

\* strings.Trim(x, "{ }"): drops leading and trailing '{', ' ' and '}'.
InCutset(c) == c \in {"{", " ", "}"}

RECURSIVE TrimLeft(_)
TrimLeft(x) ==
    IF Len(x) > 0 /\ InCutset(x[1]) THEN TrimLeft(Tail(x)) ELSE x

RECURSIVE TrimRight(_)
TrimRight(x) ==
    IF Len(x) > 0 /\ InCutset(x[Len(x)])
    THEN TrimRight(SubSeq(x, 1, Len(x) - 1)) ELSE x

Trim(x) == TrimRight(TrimLeft(x))

HasPrefixAt(s, i, old) ==
    /\ i + Len(old) - 1 <= Len(s)
    /\ SubSeq(s, i, i + Len(old) - 1) = old

RECURSIVE IndexFrom(_, _, _)
IndexFrom(s, old, i) ==
    IF i + Len(old) - 1 > Len(s) THEN 0
    ELSE IF HasPrefixAt(s, i, old) THEN i
    ELSE IndexFrom(s, old, i + 1)

\* strings.Replace(s, old, new, 1): the first occurrence of old, if any.
Replace(s, old, new) ==
    LET i == IndexFrom(s, old, 1)
    IN IF i = 0 THEN s
       ELSE SubSeq(s, 1, i - 1) \o new \o SubSeq(s, i + Len(old), Len(s))

HasSuffix(s, suf) ==
    /\ Len(suf) <= Len(s)
    /\ SubSeq(s, Len(s) - Len(suf) + 1, Len(s)) = suf

RECURSIVE Concat(_)
Concat(ss) == IF ss = <<>> THEN <<>> ELSE Head(ss) \o Concat(Tail(ss))

-----------------------------------------------------------------------------
(* Decoded JSON values, as encoding/json decodes them into interface{}:    *)
(* <<"null", 0>>, <<"bool", b>>, <<"num", n>> (float64), <<"str", chars>>, *)
(* <<"arr", sequence>>, <<"obj", function from key to value>>.             *)

Null == <<"null", 0>>
JBool(b) == <<"bool", b>>
JNum(n) == <<"num", n>>
JStr(s) == <<"str", s>>
JArr(e) == <<"arr", e>>
JObj(f) == <<"obj", f>>

Kind(v) == v[1]

DigitChars == <<"0", "1", "2", "3", "4", "5", "6", "7", "8", "9">>

RECURSIVE Digits(_)
Digits(n) ==
    IF n < 10 THEN <<DigitChars[n + 1]>>
    ELSE Digits(n \div 10) \o <<DigitChars[(n % 10) + 1]>>

RECURSIVE StripZeros(_)
StripZeros(d) ==
    IF Len(d) > 1 /\ d[Len(d)] = "0" THEN StripZeros(SubSeq(d, 1, Len(d) - 1))
    ELSE d

\* fmt.Sprint of a float64 holding a non-negative integer: %v is strconv's
\* 'g' format with the shortest digits, which prints the exponent form
\* d.ddde+XX as soon as the decimal exponent is 6 or more.
SprintNum(n) ==
    LET d == Digits(n)
        e == Len(d) - 1
        m == StripZeros(d)
    IN IF e < 6 THEN d
       ELSE <<m[1]>> \o (IF Len(m) > 1 THEN <<".">> \o Tail(m) ELSE <<>>)
            \o <<"e", "+">> \o (IF e < 10 THEN <<"0">> ELSE <<>>) \o Digits(e)

\* fmt.Sprint(varValue)
Sprint(v) ==
    CASE Kind(v) = "str" -> v[2]
      [] Kind(v) = "num" -> SprintNum(v[2])
      [] Kind(v) = "bool" -> IF v[2] THEN <<"t", "r", "u", "e">>
                             ELSE <<"f", "a", "l", "s", "e">>
      [] OTHER -> <<"<", "n", "i", "l", ">">>

-----------------------------------------------------------------------------
(* templateReplace                                                         *)

NoErr == [k |-> "none", v |-> <<>>, w |-> ""]
MissingErr(varName) ==
    [k |-> "missing template value for var", v |-> varName, w |-> ""]

\* The loop over the matches: s is reassigned by every replacement, and the
\* current s is what is returned with the error.
RECURSIVE ReplaceLoop(_, _, _, _)
ReplaceLoop(s, matches, j, store) ==
    IF j > Len(matches) THEN [s |-> s, err |-> NoErr]
    ELSE LET varMatch == matches[j]
             varName == Trim(varMatch)
         IN IF varName \notin DOMAIN store
            THEN [s |-> s, err |-> MissingErr(varName)]
            ELSE ReplaceLoop(Replace(s, varMatch, Sprint(store[varName])),
                             matches, j + 1, store)

\* A resolver that drops the error of a missing value.
templateReplaceLenient(s, store) ==
    [s |-> ReplaceLoop(s, FindAll(s), 1, store).s, err |-> NoErr]

templateReplace(s, store) ==
    LET matches == FindAll(s)
    IN IF matches = <<>> THEN [s |-> s, err |-> NoErr]
       ELSE ReplaceLoop(s, matches, 1, store)

-----------------------------------------------------------------------------
(* encoding/json over the characters the model uses: letters, digits,      *)
(* space, braces and punctuation that json.Marshal writes unescaped.       *)

\* The bytes of the model in ascending order, for the sorted keys of
\* json.Marshal.
Ascii == <<" ", "-", ".", "/", "0", "1", "2", "3", "4", "5", "6", "7", "8",
           "9", "A", "B", "H", "[", "]", "a", "b", "d", "e", "f", "g", "i",
           "l", "n", "r", "s", "t", "u", "v", "{", "}">>

Rank(c) == CHOOSE i \in 1..Len(Ascii) : Ascii[i] = c

RECURSIVE LessStr(_, _)
LessStr(a, b) ==
    IF b = <<>> THEN FALSE
    ELSE IF a = <<>> THEN TRUE
    ELSE IF a[1] = b[1] THEN LessStr(Tail(a), Tail(b))
    ELSE Rank(a[1]) < Rank(b[1])

RECURSIVE SortedKeys(_)
SortedKeys(K) ==
    IF K = {} THEN <<>>
    ELSE LET m == CHOOSE k \in K : \A o \in K : o = k \/ LessStr(k, o)
         IN <<m>> \o SortedKeys(K \ {m})

Quote == <<"\"">>

RECURSIVE Marshal(_)
Marshal(v) ==
    CASE Kind(v) = "null" -> <<"n", "u", "l", "l">>
      [] Kind(v) = "bool" -> IF v[2] THEN <<"t", "r", "u", "e">>
                             ELSE <<"f", "a", "l", "s", "e">>
      [] Kind(v) = "num" -> Digits(v[2])
      [] Kind(v) = "str" -> Quote \o v[2] \o Quote
      [] Kind(v) = "arr" ->
            <<"[">>
            \o Concat([i \in 1..Len(v[2]) |->
                  (IF i > 1 THEN <<",">> ELSE <<>>) \o Marshal(v[2][i])])
            \o <<"]">>
      [] Kind(v) = "obj" ->
            LET ks == SortedKeys(DOMAIN v[2])
            IN <<"{">>
               \o Concat([i \in 1..Len(ks) |->
                     (IF i > 1 THEN <<",">> ELSE <<>>)
                     \o Quote \o ks[i] \o Quote \o <<":">> \o Marshal(v[2][ks[i]])])
               \o <<"}">>

IsDigit(c) == c \in {"0", "1", "2", "3", "4", "5", "6", "7", "8", "9"}

RECURSIVE SkipDigits(_, _)
SkipDigits(t, i) ==
    IF i <= Len(t) /\ IsDigit(t[i]) THEN SkipDigits(t, i + 1) ELSE i

RECURSIVE ToNat(_)
ToNat(d) ==
    IF d = <<>> THEN 0
    ELSE 10 * ToNat(SubSeq(d, 1, Len(d) - 1))
         + ((CHOOSE i \in 1..10 : DigitChars[i] = d[Len(d)]) - 1)

PFail == [ok |-> FALSE, v |-> Null, i |-> 0]
POk(v, i) == [ok |-> TRUE, v |-> v, i |-> i]

\* A later duplicate key replaces the earlier one.
Put(f, k, v) == [x \in (DOMAIN f) \cup {k} |-> IF x = k THEN v ELSE f[x]]

\* The string literal whose opening quote is at i.
ParseString(t, i) ==
    LET j == IndexFrom(t, Quote, i + 1)
    IN IF j = 0 THEN PFail ELSE POk(SubSeq(t, i + 1, j - 1), j + 1)

ParseNumber(t, i) ==
    LET j == SkipDigits(t, i)
    IN IF t[i] = "0" /\ j > i + 1 THEN PFail
       ELSE POk(JNum(ToNat(SubSeq(t, i, j - 1))), j)

RECURSIVE ParseValue(_, _), ParseMembers(_, _, _), ParseElements(_, _, _)
ParseValue(t, i0) ==
    LET i == SkipSpace(t, i0)
    IN IF i > Len(t) THEN PFail
       ELSE CASE t[i] = "{" ->
                    LET j == SkipSpace(t, i + 1)
                    IN IF j <= Len(t) /\ t[j] = "}" THEN POk(JObj(<<>>), j + 1)
                       ELSE ParseMembers(t, j, <<>>)
              [] t[i] = "[" ->
                    LET j == SkipSpace(t, i + 1)
                    IN IF j <= Len(t) /\ t[j] = "]" THEN POk(JArr(<<>>), j + 1)
                       ELSE ParseElements(t, j, <<>>)
              [] t[i] = "\"" ->
                    LET r == ParseString(t, i)
                    IN IF r.ok THEN POk(JStr(r.v), r.i) ELSE PFail
              [] IsDigit(t[i]) -> ParseNumber(t, i)
              [] HasPrefixAt(t, i, <<"t", "r", "u", "e">>) ->
                    POk(JBool(TRUE), i + 4)
              [] HasPrefixAt(t, i, <<"f", "a", "l", "s", "e">>) ->
                    POk(JBool(FALSE), i + 5)
              [] HasPrefixAt(t, i, <<"n", "u", "l", "l">>) -> POk(Null, i + 4)
              [] OTHER -> PFail

ParseMembers(t, i, acc) ==
    IF i > Len(t) \/ t[i] # "\"" THEN PFail
    ELSE LET k == ParseString(t, i)
         IN IF ~k.ok THEN PFail
            ELSE LET c == SkipSpace(t, k.i)
                 IN IF c > Len(t) \/ t[c] # ":" THEN PFail
                    ELSE LET v == ParseValue(t, c + 1)
                         IN IF ~v.ok THEN PFail
                            ELSE LET acc2 == Put(acc, k.v, v.v)
                                     d == SkipSpace(t, v.i)
                                 IN IF d > Len(t) THEN PFail
                                    ELSE IF t[d] = "}" THEN POk(JObj(acc2), d + 1)
                                    ELSE IF t[d] = ","
                                    THEN ParseMembers(t, SkipSpace(t, d + 1), acc2)
                                    ELSE PFail

ParseElements(t, i, acc) ==
    LET v == ParseValue(t, i)
    IN IF ~v.ok THEN PFail
       ELSE LET acc2 == Append(acc, v.v)
                d == SkipSpace(t, v.i)
            IN IF d > Len(t) THEN PFail
               ELSE IF t[d] = "]" THEN POk(JArr(acc2), d + 1)
               ELSE IF t[d] = "," THEN ParseElements(t, d + 1, acc2)
               ELSE PFail

\* json.Unmarshal(text, &r) with r an interface{}
Unmarshal(t) ==
    LET r == ParseValue(t, 1)
    IN IF r.ok /\ SkipSpace(t, r.i) > Len(t) THEN [ok |-> TRUE, v |-> r.v]
       ELSE [ok |-> FALSE, v |-> Null]

-----------------------------------------------------------------------------
(* flatten                                                                 *)

\* The (key, value) entries written into res by flatten(m, prefix, level).
RECURSIVE flattenPairs(_, _, _)
flattenPairs(m, prefix, level) ==
    LET Pfx(k) == IF level = 0 /\ prefix # <<>> THEN prefix \o <<".">> \o k
                  ELSE k
    IN CASE Kind(m) = "arr" ->
              UNION { LET val == m[2][i]
                          ix == Digits(i - 1)
                      IN CASE Kind(val) = "obj" ->
                                { <<Pfx(<<"[">> \o ix \o <<"]", ".">> \o kv[1]), kv[2]>> :
                                    kv \in flattenPairs(val, prefix, level + 1) }
                           [] Kind(val) = "arr" ->
                                { <<Pfx(<<"[">> \o ix \o <<"]">> \o kv[1]), kv[2]>> :
                                    kv \in flattenPairs(val, prefix, level + 1) }
                           [] OTHER -> { <<Pfx(ix), val>> }
                      : i \in 1..Len(m[2]) }
         [] Kind(m) = "obj" ->
              UNION { LET val == m[2][key]
                      IN CASE Kind(val) = "obj" ->
                                { <<Pfx(key \o <<".">> \o kv[1]), kv[2]>> :
                                    kv \in flattenPairs(val, prefix, level + 1) }
                           [] Kind(val) = "arr" ->
                                { <<Pfx(key \o kv[1]), kv[2]>> :
                                    kv \in flattenPairs(val, prefix, level + 1) }
                           [] OTHER -> { <<Pfx(key), val>> }
                      : key \in DOMAIN m[2] }
         [] OTHER -> {}

\* A flattener that forgets the prefix of the top level.
flattenUnprefixed(m, prefix, level) ==
    LET rel == flattenPairs(m, <<>>, level)
    IN [k \in { kv[1] : kv \in rel } |->
          CHOOSE v \in { kv[2] : kv \in { x \in rel : x[1] = k } } : TRUE]

\* The maps flatten can return: two entries with the same key are written in
\* the iteration order of the Go map, which is unspecified, so either value
\* can be the one that stays.
flattenOutcomes(m, prefix, level) ==
    LET rel == flattenPairs(m, prefix, level)
        keys == { kv[1] : kv \in rel }
    IN { f \in [keys -> { kv[2] : kv \in rel }] :
            \A k \in keys : <<k, f[k]>> \in rel }

\* The map flatten returns when no two entries have the same key, as in the
\* bodies of the suites of this model.
flatten(m, prefix, level) ==
    LET rel == flattenPairs(m, prefix, level)
    IN [k \in { kv[1] : kv \in rel } |->
          CHOOSE v \in { kv[2] : kv \in { x \in rel : x[1] = k } } : TRUE]

\* for k, v := range f { extractedFields[pre+k] = v }
MergeWith(store, pre, f) ==
    [k \in (DOMAIN store) \cup { pre \o x : x \in DOMAIN f } |->
        IF \E x \in DOMAIN f : pre \o x = k
        THEN f[CHOOSE x \in DOMAIN f : pre \o x = k]
        ELSE store[k]]

-----------------------------------------------------------------------------
(* github.com/go-test/deep Equal on decoded JSON: the field paths of the   *)
(* differences, "" for a difference at the top level.                      *)

RECURSIVE Join(_, _)
Join(parts, sep) ==
    IF parts = <<>> THEN <<>>
    ELSE IF Len(parts) = 1 THEN parts[1]
    ELSE parts[1] \o sep \o Join(Tail(parts), sep)

MapSeg(key) == <<"m", "a", "p", "[">> \o key \o <<"]">>
SliceSeg(i) == <<"s", "l", "i", "c", "e", "[">> \o Digits(i) \o <<"]">>

RECURSIVE deepEquals(_, _, _)
deepEquals(a, b, buff) ==
    LET here == <<Join(buff, <<".">>)>>
    IN IF Kind(a) = "null" \/ Kind(b) = "null"
       THEN IF Kind(a) = Kind(b) THEN <<>> ELSE here
       ELSE IF Kind(a) # Kind(b) THEN here
       ELSE CASE Kind(a) = "obj" ->
                   LET ka == SortedKeys(DOMAIN a[2])
                       kb == SortedKeys((DOMAIN b[2]) \ (DOMAIN a[2]))
                   IN Concat([i \in 1..Len(ka) |->
                          IF ka[i] \in DOMAIN b[2]
                          THEN deepEquals(a[2][ka[i]], b[2][ka[i]],
                                          Append(buff, MapSeg(ka[i])))
                          ELSE <<Join(Append(buff, MapSeg(ka[i])), <<".">>)>>])
                      \o [i \in 1..Len(kb) |->
                            Join(Append(buff, MapSeg(kb[i])), <<".">>)]
              [] Kind(a) = "arr" ->
                   LET la == Len(a[2])
                       lb == Len(b[2])
                       n == IF la > lb THEN la ELSE lb
                   IN Concat([i \in 1..n |->
                          IF i <= la /\ i <= lb
                          THEN deepEquals(a[2][i], b[2][i],
                                          Append(buff, SliceSeg(i - 1)))
                          ELSE <<Join(Append(buff, SliceSeg(i - 1)), <<".">>)>>])
              [] OTHER -> IF a[2] = b[2] THEN <<>> ELSE here

\* deep.Equal(a, b)
deepEqual(a, b) == deepEquals(a, b, <<>>)

-----------------------------------------------------------------------------
(* compareObjects                                                          *)

Err(k, v, w) == [k |-> k, v |-> v, w |-> w]

CompareWrap == "Error comparing actual and expected responses"

\* The regexp built from IgnoredFields, \[n1\]$|\[n2\]$|..., for names
\* whose only regexp metacharacter is the dot, which matches every character
\* but a newline: the field ends in [x] for an x that a listed n matches; the
\* empty list gives \[\]$.
IgnoredMatch(ignoredFields, field) ==
    LET names == IF ignoredFields = <<>> THEN {<<>>}
                 ELSE { ignoredFields[i] : i \in 1..Len(ignoredFields) }
        Matches(n, x) ==
            \A i \in 1..Len(n) : IF n[i] = "." THEN x[i] # "\n" ELSE x[i] = n[i]
    IN \E n \in names :
          /\ Len(field) >= Len(n) + 2
          /\ field[Len(field) - Len(n) - 1] = "["
          /\ field[Len(field)] = "]"
          /\ Matches(n, SubSeq(field, Len(field) - Len(n), Len(field) - 1))

\* The loop over deepLibDiffs: the diffs that match no ignored field.
registerDiffs(ignoredFields, deepLibDiffs) ==
    LET kept == SelectSeq(deepLibDiffs,
                          LAMBDA field : ~IgnoredMatch(ignoredFields, field))
    IN [i \in 1..Len(kept) |-> Err("diff", kept[i], "")]

\* compareObjects from json.Unmarshal of the resolved expected text on.
compareDecoded(ignoredFields, obj, store1, dec) ==
    IF ~dec.ok \/ Kind(dec.v) # "obj"
    THEN [diffs |-> <<>>, store |-> store1,
          err |-> Err("error unmarshaling expectedObj", <<>>, "")]
    ELSE [diffs |-> registerDiffs(ignoredFields, deepEqual(obj, dec.v)),
          store |-> store1, err |-> NoErr]

\* compareObjects from the return of templateReplace on.
compareResolved(ignoredFields, obj, store1, tr) ==
    IF tr.err # NoErr
    THEN [diffs |-> <<>>, store |-> store1,
          err |-> Err(tr.err.k, tr.err.v,
                      "error replacing template vars in expectedObj")]
    ELSE compareDecoded(ignoredFields, obj, store1, Unmarshal(tr.s))

\* compareObjects once the fields of obj are in the store.
compareTracked(ignoredFields, obj, expectedObj, store1) ==
    compareResolved(ignoredFields, obj, store1,
                    templateReplace(Marshal(expectedObj), store1))

\* [diffs, err, store]: the returned diffs, the returned error and the store
\* as compareObjects leaves it.
compareObjects(ignoredFields, obj, expectedObj, store, objPrefix) ==
    compareTracked(ignoredFields, obj, expectedObj,
                   MergeWith(store, <<>>, flatten(obj, objPrefix, 0)))

-----------------------------------------------------------------------------
(* executeTest                                                             *)

\* A TestSpec is [Name, Skip, Method, BaseUrl, Url, Body, Headers,
\* StatusCode, ExpBody, ExpHeaders]; Body and ExpBody are decoded JSON
\* (Null when absent), Headers and ExpHeaders functions from header name to
\* text. What the transport does with a request is [err, StatusCode, Header,
\* readErr, Body]: Header maps a name to its list of values, Body is the raw
\* payload.

\* RunConfig: no run-level base url, no custom headers.
ConfigBaseUrl == <<>>
ConfigCustomHeaders == <<>>

Failed(name, errors) ==
    [Passed |-> FALSE, Skipped |-> FALSE, Name |-> name, Errors |-> errors]
Passed(name) ==
    [Passed |-> TRUE, Skipped |-> FALSE, Name |-> name, Errors |-> <<>>]
\* A result for a skipped test that counts as passed.
SkippedAsPassed(name) ==
    [Passed |-> TRUE, Skipped |-> TRUE, Name |-> name, Errors |-> <<>>]

Skipped(name) ==
    [Passed |-> FALSE, Skipped |-> TRUE, Name |-> name, Errors |-> <<>>]

RECURSIVE TrimSpaceLeft(_)
TrimSpaceLeft(x) ==
    IF Len(x) > 0 /\ IsSpace(x[1]) THEN TrimSpaceLeft(Tail(x)) ELSE x

RECURSIVE TrimSpaceRight(_)
TrimSpaceRight(x) ==
    IF Len(x) > 0 /\ IsSpace(x[Len(x)])
    THEN TrimSpaceRight(SubSeq(x, 1, Len(x) - 1)) ELSE x

TrimSpace(x) == TrimSpaceRight(TrimSpaceLeft(x))

\* http.NewRequest fails on a method that is not a token and on a url with
\* a control character.
validMethod(m) ==
    /\ m # <<>>
    /\ \A i \in 1..Len(m) : ~IsSpace(m[i]) /\ m[i] \notin {"/", "{", "}", "\""}
validUrl(u) == \A i \in 1..Len(u) : u[i] \notin {"\t", "\n"}

NoReq == [method |-> <<>>, url |-> <<>>, body |-> <<>>, headers |-> <<>>]

\* The first failing header of the loop over test.Request.Headers, or the
\* resolved headers. Go ranges over the map in an unspecified order; the
\* tests of this model have at most one header.
RECURSIVE resolveHeaders(_, _, _, _)
resolveHeaders(hs, names, store, acc) ==
    IF names = <<>> THEN [err |-> NoErr, headers |-> acc]
    ELSE LET tr == templateReplace(hs[Head(names)], store)
         IN IF tr.err # NoErr THEN [err |-> tr.err, headers |-> acc]
            ELSE resolveHeaders(hs, Tail(names), store,
                                Put(acc, Head(names), tr.s))

PreFail(errors, store) ==
    [ok |-> FALSE, errors |-> errors, store |-> store, req |-> NoReq]

\* A preparation that sends the request whatever the header loop returned.
prepareHeadersSending(test, store1, requestBody, url, hdrs) ==
    [ok |-> TRUE, errors |-> <<>>, store |-> store1,
     req |-> [method |-> test.Method, url |-> url,
              body |-> requestBody, headers |-> hdrs.headers]]

\* executeTest from the loop over the request headers to HttpClient.Do.
prepareHeaders(test, store1, requestBody, url, hdrs) ==
    IF hdrs.err # NoErr THEN PreFail(<<hdrs.err>>, store1)
    ELSE [ok |-> TRUE, errors |-> <<>>, store |-> store1,
          req |-> [method |-> test.Method, url |-> url,
                   body |-> requestBody, headers |-> hdrs.headers]]

\* executeTest from the return of templateReplace on the url on.
prepareUrl(test, store1, requestBody, baseUrl, trUrl) ==
    IF trUrl.err # NoErr THEN PreFail(<<trUrl.err>>, store1)
    ELSE IF ~validMethod(test.Method) \/ ~validUrl(baseUrl \o trUrl.s)
    THEN PreFail(<<Err("Unable to create request", <<>>, "")>>, store1)
    ELSE prepareHeaders(test, store1, requestBody, baseUrl \o trUrl.s,
                        resolveHeaders(test.Headers,
                                       SortedKeys(DOMAIN test.Headers),
                                       store1, ConfigCustomHeaders))

\* The request body and the store once the request body is memoized:
\* [err, requestBody, store].
prepareBody(test, store, trBody) ==
    IF test.Body = Null
    THEN [err |-> NoErr, requestBody |-> <<"{", "}">>, store |-> store]
    ELSE IF trBody.err # NoErr
    THEN [err |-> trBody.err, requestBody |-> <<>>, store |-> store]
    ELSE [err |-> NoErr, requestBody |-> trBody.s,
          store |-> MergeWith(store,
                        test.Name \o <<".", "r", "e", "q", "u", "e", "s", "t",
                                       ".", "b", "o", "d", "y", ".">>,
                        flatten(test.Body, <<>>, 0))]

baseUrlOf(suiteSpec, test) ==
    IF test.BaseUrl # <<>> THEN test.BaseUrl
    ELSE IF suiteSpec.BaseUrl # <<>> THEN suiteSpec.BaseUrl
    ELSE ConfigBaseUrl

prepareAfterBody(suiteSpec, test, store, b) ==
    IF b.err # NoErr THEN PreFail(<<b.err>>, store)
    ELSE prepareUrl(test, b.store, b.requestBody, baseUrlOf(suiteSpec, test),
                    templateReplace(test.Url, b.store))

\* executeTest up to the call of HttpClient.Do: [ok, errors, store, req].
prepareRequest(suiteSpec, test, store) ==
    prepareAfterBody(suiteSpec, test, store,
                     prepareBody(test, store,
                                 templateReplace(Marshal(test.Body), store)))

\* http.CanonicalHeaderKey: the first letter and every letter after a hyphen
\* in upper case, the other letters in lower case; a key with a space or
\* another byte that is no token character is returned as it is.
CanonicalHeaderKey(s) ==
    LET lower == <<"a", "b", "c", "d", "e", "f", "g", "h", "i", "j", "k", "l", "m",
                   "n", "o", "p", "q", "r", "s", "t", "u", "v", "w", "x", "y", "z">>
        upper == <<"A", "B", "C", "D", "E", "F", "G", "H", "I", "J", "K", "L", "M",
                   "N", "O", "P", "Q", "R", "S", "T", "U", "V", "W", "X", "Y", "Z">>
        Up(c) == IF \E n \in 1..26 : lower[n] = c
                 THEN upper[CHOOSE n \in 1..26 : lower[n] = c] ELSE c
        Low(c) == IF \E n \in 1..26 : upper[n] = c
                  THEN lower[CHOOSE n \in 1..26 : upper[n] = c] ELSE c
    IN IF \E i \in 1..Len(s) : IsSpace(s[i]) \/ s[i] \in {"{", "}", "\"", "/", "[", "]", ",", ":"}
       THEN s
       ELSE [i \in 1..Len(s) |->
                IF i = 1 \/ s[i - 1] = "-" THEN Up(s[i]) ELSE Low(s[i])]

\* One iteration of the loop over test.ExpectedResponse.Headers.
checkHeader(n, tpl, respHeader, tr) ==
    IF CanonicalHeaderKey(n) \in DOMAIN respHeader
    THEN IF tr.err # NoErr
         THEN <<Err("Invalid expected response header template", tpl, "")>>
         ELSE IF Join(respHeader[CanonicalHeaderKey(n)], <<",">>) # tr.s
         THEN <<Err("Expected response header but got", n, "")>>
         ELSE <<>>
    ELSE <<Err("Expected response header not present", n, "")>>

\* The errors of the loop over test.ExpectedResponse.Headers.
RECURSIVE checkHeaders(_, _, _, _)
checkHeaders(exp, names, respHeader, store) ==
    IF names = <<>> THEN <<>>
    ELSE checkHeader(Head(names), exp[Head(names)], respHeader,
                     templateReplace(exp[Head(names)], store))
         \o checkHeaders(exp, Tail(names), respHeader, store)

CompareErr(c) ==
    IF c.err # NoErr THEN <<Err(c.err.k, c.err.v, CompareWrap)>> ELSE <<>>

elementStep(acc, c) ==
    [panic |-> FALSE, errors |-> acc.errors \o CompareErr(c) \o c.diffs,
     store |-> c.store]

\* The loop over the elements of an array response: [panic, errors, store].
RECURSIVE compareElements(_, _, _, _, _, _)
compareElements(ignoredFields, name, response, expected, i, acc) ==
    IF i > Len(response) \/ acc.panic THEN acc
    ELSE IF Kind(response[i]) # "obj" \/ Kind(expected[i]) # "obj"
    THEN [acc EXCEPT !.panic = TRUE]
    ELSE compareElements(ignoredFields, name, response, expected, i + 1,
            elementStep(acc,
                compareObjects(ignoredFields, response[i], expected[i], acc.store,
                               name \o <<"[">> \o Digits(i - 1) \o <<"]">>)))

\* The end of executeTest.
finishTest(errors, store, body) ==
    IF errors # <<>>
    THEN [res |-> "Failed", store |-> store,
          errors |-> errors \o <<Err("Full response payload from server", body, "")>>]
    ELSE [res |-> "Passed", errors |-> <<>>, store |-> store]

objectCase(e2, body, c) ==
    finishTest(e2 \o CompareErr(c) \o c.diffs, c.store, body)

arrayCase(body, l) ==
    IF l.panic THEN [res |-> "panic", errors |-> l.errors, store |-> l.store]
    ELSE finishTest(l.errors, l.store, body)

scalarCase(e2, store2, body, differences) ==
    finishTest(e2 \o [i \in 1..Len(differences) |-> Err("diff", differences[i], "")],
               store2, body)

\* A switch that, for arrays of different lengths, reports the lengths and
\* still compares the elements that both arrays have.
compareBodyComparingPrefix(ignoredFields, test, e2, store2, body, r) ==
    LET Min(a, b) == IF a < b THEN a ELSE b
    IN CASE Kind(r) = "obj" ->
               IF Kind(test.ExpBody) # "obj"
               THEN [res |-> "panic", errors |-> e2, store |-> store2]
               ELSE objectCase(e2, body,
                       compareObjects(ignoredFields, r, test.ExpBody, store2, test.Name))
         [] Kind(r) = "arr" ->
               IF Kind(test.ExpBody) # "arr"
               THEN [res |-> "panic", errors |-> e2, store |-> store2]
               ELSE arrayCase(body,
                       compareElements(ignoredFields, test.Name,
                           SubSeq(r[2], 1, Min(Len(r[2]), Len(test.ExpBody[2]))),
                           SubSeq(test.ExpBody[2], 1, Min(Len(r[2]), Len(test.ExpBody[2]))),
                           1,
                           [panic |-> FALSE,
                            errors |-> e2 \o (IF Len(r[2]) # Len(test.ExpBody[2])
                                              THEN <<Err("The number of array elements in response and expectedResponse don't match", <<>>, "")>>
                                              ELSE <<>>),
                            store |-> store2]))
         [] OTHER -> scalarCase(e2, store2, body, deepEqual(r, test.ExpBody))

\* The switch on the type of the decoded response r; a failed type assertion
\* on expectedResponse or on an element panics.
compareBody(ignoredFields, test, e2, store2, body, r) ==
    CASE Kind(r) = "obj" ->
            IF Kind(test.ExpBody) # "obj"
            THEN [res |-> "panic", errors |-> e2, store |-> store2]
            ELSE objectCase(e2, body,
                    compareObjects(ignoredFields, r, test.ExpBody, store2, test.Name))
      [] Kind(r) = "arr" ->
            IF Kind(test.ExpBody) # "arr"
            THEN [res |-> "panic", errors |-> e2, store |-> store2]
            ELSE IF Len(r[2]) # Len(test.ExpBody[2])
            THEN finishTest(e2 \o <<Err("The number of array elements in response and expectedResponse don't match", <<>>, "")>>,
                            store2, body)
            ELSE arrayCase(body,
                    compareElements(ignoredFields, test.Name, r[2], test.ExpBody[2], 1,
                        [panic |-> FALSE, errors |-> e2, store |-> store2]))
      [] OTHER -> scalarCase(e2, store2, body, deepEqual(r, test.ExpBody))

decodedBody(ignoredFields, test, e2, store2, body, dec) ==
    IF ~dec.ok
    THEN [res |-> "Failed", store |-> store2,
          errors |-> e2 \o <<Err("Error parsing json response from server", <<>>, "")>>]
    ELSE compareBody(ignoredFields, test, e2, store2, body, dec.v)

\* An end of the test without expected body that passes whatever the errors.
noBodyExpectedPassing(e3, store2) ==
    [res |-> "Passed", errors |-> <<>>, store |-> store2]

noBodyExpected(e3, store2) ==
    IF e3 # <<>> THEN [res |-> "Failed", errors |-> e3, store |-> store2]
    ELSE [res |-> "Passed", errors |-> <<>>, store |-> store2]

\* executeTest from reading the response payload on.
readBody(ignoredFields, test, e2, store2, resp) ==
    IF resp.readErr
    THEN [res |-> "Failed", store |-> store2,
          errors |-> e2 \o <<Err("Error reading response from server", <<>>, "")>>]
    ELSE IF test.ExpBody = Null
    THEN noBodyExpected(e2 \o (IF Len(resp.Body) # 0
                               THEN <<Err("Expected response payload but got", <<>>, "")>>
                               ELSE <<>>),
                        store2)
    ELSE decodedBody(ignoredFields, test, e2, store2, resp.Body, Unmarshal(resp.Body))

\* A status comparison with the test inverted.
statusErrorsInverted(test, resp) ==
    IF resp.StatusCode = test.StatusCode
    THEN <<Err("Expected http but got http", <<>>, "")>> ELSE <<>>

statusErrors(test, resp) ==
    IF resp.StatusCode # test.StatusCode
    THEN <<Err("Expected http but got http", <<>>, "")>> ELSE <<>>

\* A check that returns at once on a status mismatch.
checkExpectedStopping(ignoredFields, test, store2, resp) ==
    IF statusErrors(test, resp) # <<>>
    THEN [res |-> "Failed", errors |-> statusErrors(test, resp), store |-> store2]
    ELSE readBody(ignoredFields, test,
                  checkHeaders(test.ExpHeaders, SortedKeys(DOMAIN test.ExpHeaders),
                               resp.Header, store2),
                  store2, resp)

\* executeTest once the response headers are memoized.
checkExpected(ignoredFields, test, store2, resp) ==
    readBody(ignoredFields, test,
             statusErrors(test, resp)
             \o checkHeaders(test.ExpHeaders, SortedKeys(DOMAIN test.ExpHeaders),
                             resp.Header, store2),
             store2, resp)

\* A memoization of the response headers that keeps the expected ones only.
checkResponseExpectedOnly(suiteSpec, test, store, resp) ==
    checkExpected(suiteSpec.IgnoredFields, test,
        MergeWith(store,
                  test.Name \o <<".", "h", "e", "a", "d", "e", "r", ".">>,
                  [h \in { x \in DOMAIN resp.Header :
                             \E e \in DOMAIN test.ExpHeaders :
                                 CanonicalHeaderKey(e) = x } |->
                      JStr(TrimSpace(Join(resp.Header[h], <<",">>)))]),
        resp)

\* executeTest from the return of HttpClient.Do on: [res, errors, store],
\* res one of "Passed", "Failed" and "panic" (a failed type assertion).
checkResponse(suiteSpec, test, store, resp) ==
    checkExpected(suiteSpec.IgnoredFields, test,
        MergeWith(store,
                  test.Name \o <<".", "h", "e", "a", "d", "e", "r", ".">>,
                  [h \in DOMAIN resp.Header |->
                      JStr(TrimSpace(Join(resp.Header[h], <<",">>)))]),
        resp)

dispatched(pre, c) ==
    [res |-> c.res, errors |-> c.errors, store |-> c.store, sent |-> TRUE,
     req |-> pre.req]

\* executeTest from the call of HttpClient.Do on, pre being what the
\* preparation of the request gave.
afterPrepare(suiteSpec, test, resp, pre) ==
    IF ~pre.ok
    THEN [res |-> "Failed", errors |-> pre.errors, store |-> pre.store,
          sent |-> FALSE, req |-> NoReq]
    ELSE IF resp.err
    THEN [res |-> "Failed", errors |-> <<Err("Error making request", <<>>, "")>>,
          store |-> pre.store, sent |-> TRUE, req |-> pre.req]
    ELSE dispatched(pre, checkResponse(suiteSpec, test, pre.store, resp))

\* executeTest(test, extractedFields) when the transport answers resp:
\* [res, errors, store, sent, req].
executeTest(suiteSpec, test, store, resp) ==
    afterPrepare(suiteSpec, test, resp, prepareRequest(suiteSpec, test, store))

-----------------------------------------------------------------------------
(* ExecuteSuite                                                            *)

IsAlnum(c) ==
    c \in {"0", "1", "2", "3", "4", "5", "6", "7", "8", "9",
           "A", "B", "a", "b", "d", "e", "f", "g", "i", "l", "n", "r", "s",
           "t", "u", "v", "H"}

\* nameRegex ^[a-zA-Z0-9]*$
nameRegexMatch(name) == \A i \in 1..Len(name) : IsAlnum(name[i])

\* A validation loop that does not look names up in testNames.
RECURSIVE validateTestsNoLookup(_, _, _)
validateTestsNoLookup(tests, i, testNames) ==
    IF i > Len(tests) THEN NoErr
    ELSE IF ~nameRegexMatch(tests[i].Name)
    THEN Err("invalid test case name", tests[i].Name, "")
    ELSE validateTestsNoLookup(tests, i + 1, testNames \cup {tests[i].Name})

\* The validation loop over suiteSpec.Tests: the error it returns, or NoErr.
RECURSIVE validateTests(_, _, _)
validateTests(tests, i, testNames) ==
    IF i > Len(tests) THEN NoErr
    ELSE IF ~nameRegexMatch(tests[i].Name)
    THEN Err("invalid test case name", tests[i].Name, "")
    ELSE IF tests[i].Name \in testNames
    THEN Err("test case defined twice", tests[i].Name, "")
    ELSE validateTests(tests, i + 1, testNames \cup {tests[i].Name})

EmptyResult == [TotalTests |-> 0, Passed |-> <<>>, Failed |-> <<>>, Skipped |-> <<>>]

NotReturned == [err |-> NoErr, result |-> EmptyResult]

-----------------------------------------------------------------------------
(* The suite files and the transport of the model                          *)

MaxTests == 2

\* "{{ tok }}" and "{{tok}}"
Spaced(tok) == <<"{", "{", " ">> \o tok \o <<" ", "}", "}">>
Tight(tok) == <<"{", "{">> \o tok \o <<"}", "}">>
\* "{{<tab>tok<tab>}}"
Tabbed(tok) == <<"{", "{", "\t">> \o tok \o <<"\t", "}", "}">>

NA == <<"A">>
NB == <<"B">>
NEmpty == <<>>
NBad == <<"a", "-">>

Cf == <<"f">>
Cg == <<"g">>
CH == <<"H">>
U1 == <<"u", "1">>
U2 == <<"u", "2">>
KeyAf == NA \o <<".">> \o Cf
RefAf == Spaced(KeyAf)
Get == <<"G", "E", "T">>
PathU == <<"/", "u">>

Obj1(k, v) == JObj([x \in {k} |-> v])
Hdr1(k, v) == [x \in {k} |-> v]
NoHeaders == <<>>

TestSpec(name, skip, method, url, body, headers, expBody, expHeaders) ==
    [Name |-> name, Skip |-> skip, Method |-> method, BaseUrl |-> <<>>,
     Url |-> url, Body |-> body, Headers |-> headers, StatusCode |-> 200,
     ExpBody |-> expBody, ExpHeaders |-> expHeaders]

\* expects {"f":"u1"}
Producer(n) ==
    TestSpec(n, FALSE, Get, PathU, Null, NoHeaders, Obj1(Cf, JStr(U1)), NoHeaders)
SkippedTest(n) ==
    TestSpec(n, TRUE, Get, PathU, Null, NoHeaders, Obj1(Cf, JStr(U1)), NoHeaders)
\* url /u/{{ A.f }}
UrlRef(n) ==
    TestSpec(n, FALSE, Get, PathU \o <<"/">> \o RefAf, Null, NoHeaders, Null, NoHeaders)
\* request body {"g":"{{ A.f }}"}
BodyRef(n) ==
    TestSpec(n, FALSE, Get, PathU, Obj1(Cg, JStr(RefAf)), NoHeaders, Null, NoHeaders)
\* request header H: {{ A.f }}
HeaderRef(n) ==
    TestSpec(n, FALSE, Get, PathU, Null, Hdr1(CH, RefAf), Null, NoHeaders)
\* expected response header h: {{ A.f }}
ExpHeaderRef(n) ==
    TestSpec(n, FALSE, Get, PathU, Null, NoHeaders, Null, Hdr1(<<"h">>, RefAf))
\* expects {"f":"{{ A.f }}"}
ExpBodyRef(n) ==
    TestSpec(n, FALSE, Get, PathU, Null, NoHeaders, Obj1(Cf, JStr(RefAf)), NoHeaders)
\* expects [{"f":"u1"},{"f":"u2"}]
ExpArray(n) ==
    TestSpec(n, FALSE, Get, PathU, Null, NoHeaders,
             JArr(<<Obj1(Cf, JStr(U1)), Obj1(Cf, JStr(U2))>>), NoHeaders)
\* expects "u1"
ExpScalar(n) ==
    TestSpec(n, FALSE, Get, PathU, Null, NoHeaders, JStr(U1), NoHeaders)
\* method "G T", request body {"g":"u1"}
BadMethod(n) ==
    TestSpec(n, FALSE, <<"G", " ", "T">>, PathU, Obj1(Cg, JStr(U1)), NoHeaders,
             Null, NoHeaders)

\* "{{ B.request.body.<path> }}"
OwnBodyRef(path) ==
    Spaced(NB \o <<".", "r", "e", "q", "u", "e", "s", "t", ".", "b", "o", "d", "y", ".">>
           \o path)

Catalogue ==
    { Producer(NA), SkippedTest(NA), ExpBodyRef(NA), UrlRef(NA),
      Producer(NB), UrlRef(NB), BodyRef(NB), HeaderRef(NB), ExpHeaderRef(NB),
      ExpBodyRef(NB), ExpArray(NB), ExpScalar(NB), BadMethod(NB),
      Producer(NEmpty), Producer(NBad),
      \* request body {"g":"u1"}, url /u/{{ B.request.body.g }} and request
      \* header H: {{ B.request.body.g }}
      TestSpec(NB, FALSE, Get, PathU \o <<"/">> \o OwnBodyRef(Cg),
               Obj1(Cg, JStr(U1)), Hdr1(CH, OwnBodyRef(Cg)), Null, NoHeaders),
      \* request body {"g":["u1"]}, url /u/{{ B.request.body.g[0] }}
      TestSpec(NB, FALSE, Get, PathU \o <<"/">> \o OwnBodyRef(<<"g", "[", "0", "]">>),
               Obj1(Cg, JArr(<<JStr(U1)>>)), NoHeaders, Null, NoHeaders),
      \* request body {"g":"{{ B.request.body.g }}"}
      TestSpec(NB, FALSE, Get, PathU, Obj1(Cg, JStr(OwnBodyRef(Cg))), NoHeaders,
               Null, NoHeaders) }

SuiteSpecs ==
    { [Skip |-> sk, IgnoredFields |-> ig, BaseUrl |-> <<>>, Tests |-> ts] :
        sk \in BOOLEAN, ig \in {<<>>, <<Cf>>},
        ts \in UNION { [1..n -> Catalogue] : n \in 1..MaxTests } }

Response(status, header, body) ==
    [err |-> FALSE, StatusCode |-> status, Header |-> header, readErr |-> FALSE,
     Body |-> body]

Responses ==
    { Response(200, Hdr1(CH, <<U1>>), Marshal(Obj1(Cf, JStr(U1)))),
      Response(200, Hdr1(CH, <<U1>>), <<>>),
      \* H: " u1" and H: "u2"
      Response(500, Hdr1(CH, <<(<<" ">> \o U1), U2>>), Marshal(Obj1(Cf, JStr(U2)))),
      Response(200, NoHeaders,
               Marshal(JArr(<<Obj1(Cf, JStr(U1)), Obj1(Cf, JStr(U2))>>))),
      Response(200, NoHeaders, Marshal(JArr(<<Obj1(Cf, JStr(U1))>>))),
      Response(200, NoHeaders, Marshal(JStr(U1))),
      Response(200, NoHeaders, <<"{">>),
      [Response(200, NoHeaders, <<>>) EXCEPT !.readErr = TRUE],
      [Response(0, NoHeaders, <<>>) EXCEPT !.err = TRUE] }

NoResponse == [Response(0, NoHeaders, <<>>) EXCEPT !.err = TRUE]

NoOut == [s |-> <<>>, err |-> NoErr]

TRIdle == /\ trS = <<>> /\ trStore = <<>> /\ trOut = NoOut /\ trPc = "idle"

UnitIdle == /\ unitCall = <<>> /\ unitOut = <<>> /\ unitPc = "idle"

RunIdle ==
    /\ runFiles = <<>> /\ runPos = 0 /\ runResults = <<>> /\ runStores = <<>>
    /\ runPc = "idle" /\ runReturned = <<>>

SuiteIdle ==
    /\ suite = <<>> /\ pc = "idle" /\ idx = 0 /\ extractedFields = <<>>
    /\ passed = <<>> /\ failed = <<>> /\ skipped = <<>> /\ totalTests = 0
    /\ returned = NotReturned /\ calls = <<>> /\ trail = <<>>

Init ==
    /\ TRIdle /\ UnitIdle /\ RunIdle
    /\ suite \in SuiteSpecs
    /\ pc = "load"
    /\ idx = 0
    /\ extractedFields = <<>>
    /\ passed = <<>> /\ failed = <<>> /\ skipped = <<>>
    /\ totalTests = 0
    /\ returned = NotReturned
    /\ calls = <<>>
    /\ trail = <<>>

\* The validation of the parsed suite: ExecuteSuite returns on the first
\* invalid or repeated test name.
Validate ==
    /\ pc = "load"
    /\ LET e == validateTests(suite.Tests, 1, {})
       IN IF e # NoErr
          THEN /\ pc' = "rejected"
               /\ returned' = [err |-> e, result |-> EmptyResult]
          ELSE /\ pc' = "run"
               /\ UNCHANGED returned
    /\ UNCHANGED <<suite, idx, extractedFields, passed, failed, skipped,
                   totalTests, calls, trail, trVars, unitVars, runVars>>

\* An iteration for a skipped test that leaves totalTests as it is.
SkipTestUncounted ==
    /\ pc = "run"
    /\ idx < Len(suite.Tests)
    /\ LET test == suite.Tests[idx + 1]
       IN /\ suite.Skip \/ test.Skip
          /\ skipped' = Append(skipped, Skipped(test.Name))
    /\ idx' = idx + 1
    /\ UNCHANGED <<suite, pc, extractedFields, passed, failed, returned, calls,
                   trail, totalTests, trVars, unitVars, runVars>>

\* One iteration of the loop for a skipped test.
SkipTest ==
    /\ pc = "run"
    /\ idx < Len(suite.Tests)
    /\ LET test == suite.Tests[idx + 1]
       IN /\ suite.Skip \/ test.Skip
          /\ skipped' = Append(skipped, Skipped(test.Name))
    /\ totalTests' = totalTests + 1
    /\ idx' = idx + 1
    /\ UNCHANGED <<suite, pc, extractedFields, passed, failed, returned, calls,
                   trail, trVars, unitVars, runVars>>

\* The rest of the iteration once executeTest has returned out, or panicked:
\* a panic unwinds ExecuteSuite, which returns nothing.
record(test, resp, out) ==
    /\ extractedFields' = out.store
    /\ calls' = IF out.sent THEN Append(calls, out.req) ELSE calls
    /\ trail' = Append(trail, [i |-> idx + 1, before |-> extractedFields,
                               resp |-> resp, out |-> out])
    /\ IF out.res = "panic"
       THEN /\ pc' = "panic"
            /\ UNCHANGED <<idx, passed, failed>>
       ELSE /\ pc' = pc
            /\ idx' = idx + 1
            /\ IF out.res = "Passed"
               THEN /\ passed' = Append(passed, Passed(test.Name))
                    /\ UNCHANGED failed
               ELSE /\ failed' = Append(failed, Failed(test.Name, out.errors))
                    /\ UNCHANGED passed

\* The transport is asked only when executeTest reaches HttpClient.Do.
runWith(test, pre) ==
    \E resp \in (IF pre.ok THEN Responses ELSE {NoResponse}) :
        record(test, resp, afterPrepare(suite, test, resp, pre))

\* One iteration of the loop for a test that is executed.
RunTest ==
    /\ pc = "run"
    /\ idx < Len(suite.Tests)
    /\ ~(suite.Skip \/ suite.Tests[idx + 1].Skip)
    /\ runWith(suite.Tests[idx + 1],
               prepareRequest(suite, suite.Tests[idx + 1], extractedFields))
    /\ totalTests' = totalTests + 1
    /\ UNCHANGED <<suite, skipped, returned, trVars, unitVars, runVars>>

\* The return of ExecuteSuite after the loop.
Return ==
    /\ pc = "run"
    /\ idx = Len(suite.Tests)
    /\ pc' = "done"
    /\ returned' = [err |-> NoErr,
                    result |-> [TotalTests |-> totalTests, Passed |-> passed,
                                Failed |-> failed, Skipped |-> skipped]]
    /\ UNCHANGED <<suite, idx, extractedFields, passed, failed, skipped,
                   totalTests, calls, trail, trVars, unitVars, runVars>>

Next == Validate \/ SkipTest \/ RunTest \/ Return

Spec == Init /\ [][Next]_vars

-----------------------------------------------------------------------------
(* Run, from its loop over the test files on: up to MaxFiles files, each a *)
(* suite of the model or a file that cannot be opened or parsed.           *)

MaxFiles == 2

InitRun ==
    /\ SuiteIdle /\ TRIdle /\ UnitIdle
    /\ LET File(tests) ==
               [ok |-> TRUE,
                spec |-> [Skip |-> FALSE, IgnoredFields |-> <<>>, BaseUrl |-> <<>>,
                          Tests |-> tests]]
           Files == { File(<<Producer(NA)>>), File(<<UrlRef(NB)>>),
                      File(<<SkippedTest(NA)>>),
                      File(<<Producer(NA), UrlRef(NB)>>),
                      File(<<Producer(NA), Producer(NA)>>),
                      [ok |-> FALSE, spec |-> <<>>] }
       IN runFiles \in UNION { [1..n -> Files] : n \in 0..MaxFiles }
    /\ runPos = 0 /\ runResults = <<>> /\ runStores = <<>>
    /\ runPc = "loop" /\ runReturned = <<>>

\* A call of ExecuteSuite that goes on with the store it finds.
RunLoadSharingStore ==
    /\ runPc = "loop" /\ pc = "idle"
    /\ runPos < Len(runFiles)
    /\ IF runFiles[runPos + 1].ok
       THEN /\ suite' = runFiles[runPos + 1].spec
            /\ pc' = "load"
            /\ returned' = NotReturned
       ELSE /\ suite' = <<>>
            /\ pc' = "rejected"
            /\ returned' = [err |-> Err("error opening test file", <<>>, ""),
                            result |-> EmptyResult]
    /\ idx' = 0 /\ totalTests' = 0
    /\ passed' = <<>> /\ failed' = <<>> /\ skipped' = <<>> /\ trail' = <<>>
    /\ UNCHANGED <<extractedFields, calls, trVars, unitVars, runVars>>

\* Run calls ExecuteSuite for the next file: the file is read and parsed (an
\* error is returned at once), and the call starts with its own empty lists
\* and its own empty map.
RunLoad ==
    /\ runPc = "loop" /\ pc = "idle"
    /\ runPos < Len(runFiles)
    /\ IF runFiles[runPos + 1].ok
       THEN /\ suite' = runFiles[runPos + 1].spec
            /\ pc' = "load"
            /\ returned' = NotReturned
       ELSE /\ suite' = <<>>
            /\ pc' = "rejected"
            /\ returned' = [err |-> Err("error opening test file", <<>>, ""),
                            result |-> EmptyResult]
    /\ idx' = 0 /\ totalTests' = 0 /\ extractedFields' = <<>>
    /\ passed' = <<>> /\ failed' = <<>> /\ skipped' = <<>> /\ trail' = <<>>
    /\ UNCHANGED <<calls, trVars, unitVars, runVars>>

\* ExecuteSuite has returned: on an error Run prints it and goes on with the
\* next file, otherwise it keeps the result. The map of the call is gone;
\* runStores keeps what it held.
RunCollect ==
    /\ runPc = "loop" /\ pc \in {"done", "rejected"}
    /\ runResults' = IF returned.err # NoErr THEN runResults
                     ELSE Append(runResults, returned.result)
    /\ runStores' = Append(runStores, extractedFields)
    /\ runPos' = runPos + 1
    /\ pc' = "idle"
    /\ UNCHANGED <<suite, idx, extractedFields, passed, failed, skipped,
                   totalTests, returned, calls, trail, runFiles, runPc,
                   runReturned, trVars, unitVars>>

\* The totals over the collected results and the return of Run.
RunFinish ==
    /\ runPc = "loop" /\ pc = "idle"
    /\ runPos = Len(runFiles)
    /\ runReturned' =
          [ok |-> \A n \in 1..Len(runResults) : Len(runResults[n].Failed) = 0,
           err |-> NoErr]
    /\ runPc' = "returned"
    /\ UNCHANGED <<suiteVars, runFiles, runPos, runResults, runStores, trVars,
                   unitVars>>

SpecRun ==
    InitRun /\ [][RunLoad \/ Validate \/ SkipTest \/ RunTest \/ Return
                  \/ RunCollect \/ RunFinish]_vars

-----------------------------------------------------------------------------
(* templateReplace on its own: the inputs are strings assembled from up to *)
(* MaxSegs pieces and stores over the keys a and b.                        *)

MaxSegs == 3

Ca == <<"a">>
Cb == <<"b">>

Segs == { Spaced(Ca), Tight(Ca), Tabbed(Ca), Spaced(Cb), Tight(Cb), <<" ">>,
          <<"/">>, <<"{", "{", " ">>, <<" ", "}", "}">> }

TRValues == { JStr(<<"v">>), JNum(12), JStr(Spaced(Ca)), JStr(Tight(Cb)) }

SegSeqs == UNION { [1..n -> Segs] : n \in 0..MaxSegs }

TRStores == UNION { [K -> TRValues] : K \in SUBSET {Ca, Cb} }

InitTR ==
    /\ SuiteIdle /\ UnitIdle /\ RunIdle
    /\ \E segs \in SegSeqs : trS = Concat(segs)
    /\ trStore \in TRStores
    /\ trOut = NoOut
    /\ trPc = "ready"

\* One call templateReplace(trS, trStore).
Resolve ==
    /\ trPc = "ready"
    /\ trOut' = templateReplace(trS, trStore)
    /\ trPc' = "done"
    /\ UNCHANGED <<trS, trStore, suiteVars, unitVars, runVars>>

NextTR == Resolve

SpecTR == InitTR /\ [][NextTR]_vars

-----------------------------------------------------------------------------
(* flatten on its own: the values are JSON values of up to two levels of   *)
(* nesting over the keys f and f0, with arrays of up to MaxElems elements. *)

MaxElems == 2

FLValues ==
    LET Keys == {Cf, <<"f", "0">>}
        Nest(S) ==
            S \cup { JObj(f) : f \in UNION { [K -> S] : K \in SUBSET Keys } }
              \cup { JArr(e) : e \in UNION { [1..n -> S] : n \in 0..MaxElems } }
    IN Nest(Nest({JStr(U1), JNum(7), Null}))

InitFL ==
    /\ SuiteIdle /\ TRIdle /\ RunIdle
    /\ \E m \in FLValues, prefix \in {<<>>, NA} :
          unitCall = [m |-> m, prefix |-> prefix]
    /\ unitOut = <<>>
    /\ unitPc = "ready"

\* One call flatten(m, prefix, 0).
Flatten ==
    /\ unitPc = "ready"
    /\ unitOut' \in flattenOutcomes(unitCall.m, unitCall.prefix, 0)
    /\ unitPc' = "done"
    /\ UNCHANGED <<unitCall, suiteVars, trVars, runVars>>

SpecFL == InitFL /\ [][Flatten]_vars

-----------------------------------------------------------------------------
(* The comparison of a response on its own: a test named A expects status  *)
(* 200 and an object over the keys f and g, whose fields hold a string, an *)
(* object or an array, and the transport answers 200 with such an object;  *)
(* also objects with a field of the empty name, the ignored field ".", and *)
(* the expected body {"f":"{{ A.f }}"} for a payload whose f is a string,  *)
(* a number or a boolean.                                                  *)

InitCmp ==
    /\ SuiteIdle /\ TRIdle /\ RunIdle
    /\ LET Strs == {JStr(U1), JStr(U2)}
           Fields == Strs \cup { Obj1(k, s) : k \in {Cf, Cg}, s \in Strs }
                          \cup { JArr(<<s>>) : s \in Strs }
           Objs == { JObj(f) : f \in UNION { [K -> Fields] : K \in (SUBSET {Cf, Cg}) \ {{}} } }
       IN \/ \E obj \in Objs, expected \in Objs, ig \in {<<>>, <<Cf>>, <<Cf, Cg>>} :
                unitCall = [obj |-> obj, expected |-> expected, ignored |-> ig]
          \/ \E k \in {<<>>, Cf}, s \in Strs, t \in Strs,
                ig \in {<<>>, <<Cg>>, <<(<<".">>)>>} :
                unitCall = [obj |-> Obj1(k, s), expected |-> Obj1(k, t),
                            ignored |-> ig]
          \/ \E v \in Strs \cup {JNum(7), JNum(0), JBool(TRUE), JBool(FALSE)} :
                unitCall = [obj |-> Obj1(Cf, v), expected |-> Obj1(Cf, JStr(RefAf)),
                            ignored |-> <<>>]
    /\ unitOut = <<>>
    /\ unitPc = "ready"

\* executeTest from the return of HttpClient.Do on, for the test expecting
\* unitCall.expected and the payload unitCall.obj.
Compare ==
    /\ unitPc = "ready"
    /\ unitOut' = checkResponse(
                      [Skip |-> FALSE, IgnoredFields |-> unitCall.ignored,
                       BaseUrl |-> <<>>],
                      TestSpec(NA, FALSE, Get, PathU, Null, NoHeaders,
                               unitCall.expected, NoHeaders),
                      <<>>,
                      Response(200, NoHeaders, Marshal(unitCall.obj)))
    /\ unitPc' = "done"
    /\ UNCHANGED <<unitCall, suiteVars, trVars, runVars>>

SpecCmp == InitCmp /\ [][Compare]_vars

-----------------------------------------------------------------------------
(* Properties of ExecuteSuite and executeTest (specification Spec)         *)

\* The scalar leaves of v: <<path, value>>, a path being the sequence of the
\* object keys <<"key", k>> and array indices <<"idx", i>> that lead to the
\* leaf.
RECURSIVE LeafPaths(_)
LeafPaths(v) ==
    CASE Kind(v) = "obj" ->
            UNION { { <<(<<(<<"key", k>>)>>) \o pv[1], pv[2]>> : pv \in LeafPaths(v[2][k]) } :
                      k \in DOMAIN v[2] }
      [] Kind(v) = "arr" ->
            UNION { { <<(<<(<<"idx", i - 1>>)>>) \o pv[1], pv[2]>> : pv \in LeafPaths(v[2][i]) } :
                      i \in 1..Len(v[2]) }
      [] OTHER -> { <<(<<>>), v>> }

\* The key of a path: object keys joined with ".", an index i as "[i]".
RECURSIVE PathKey(_, _)
PathKey(path, first) ==
    IF path = <<>> THEN <<>>
    ELSE (IF path[1][1] = "idx" THEN <<"[">> \o Digits(path[1][2]) \o <<"]">>
          ELSE (IF first THEN <<>> ELSE <<".">>) \o path[1][2])
         \o PathKey(Tail(path), FALSE)

UnderPrefix(prefix, key) == IF prefix = <<>> THEN key ELSE prefix \o <<".">> \o key

Ran == 1..Len(trail)
TestOf(k) == suite.Tests[trail[k].i]

\* The transport answered test k and the payload was read.
Answered(k) ==
    trail[k].out.sent /\ ~trail[k].resp.err /\ ~trail[k].resp.readErr

\* Test k compared an object payload carrying field f with an expected
\* object, which puts <name>.f into the store.
GaveF(k) ==
    /\ Answered(k)
    /\ Kind(TestOf(k).ExpBody) = "obj"
    /\ Unmarshal(trail[k].resp.Body).ok
    /\ Kind(Unmarshal(trail[k].resp.Body).v) = "obj"
    /\ Cf \in DOMAIN Unmarshal(trail[k].resp.Body).v[2]

FOf(k) == Unmarshal(trail[k].resp.Body).v[2][Cf]

UrlWithRef == PathU \o <<"/">> \o RefAf

NamesMissing(errors, tokens) ==
    \E n \in 1..Len(errors) :
        errors[n].k = "missing template value for var" /\ errors[n].v \in tokens

\* The executed tests that came before k, are named A and gave A.f.
ProducersBefore(k) ==
    { m \in 1..(k - 1) : TestOf(m).Name = NA /\ GaveF(m) }

\* C1: the tests that are not skipped run in the order of the file against
\* one store: every executed test starts from the store the previous one
\* left, and a test whose url is /u/{{ A.f }} sends /u/<f of A's response>
\* when the test named A ran before it and extracted f, and otherwise (A is
\* declared later, or gave no f) is Failed without sending, for the missing
\* value A.f.
C1_DeclarationOrderSharedStore ==
    /\ \A i \in 1..idx :
          (suite.Skip \/ suite.Tests[i].Skip) \/ (\E k \in Ran : trail[k].i = i)
    /\ \A k \in Ran :
          /\ ~(suite.Skip \/ TestOf(k).Skip)
          /\ IF k = 1 THEN trail[k].before = <<>>
             ELSE /\ trail[k - 1].i < trail[k].i
                  /\ trail[k].before = trail[k - 1].out.store
          /\ TestOf(k).Url = UrlWithRef =>
                IF ProducersBefore(k) # {}
                THEN \E m \in ProducersBefore(k) :
                        /\ trail[k].out.sent
                        /\ trail[k].out.req.url = PathU \o <<"/">> \o Sprint(FOf(m))
                        /\ \E c \in 1..Len(calls) : calls[c] = trail[k].out.req
                ELSE /\ trail[k].out.res = "Failed"
                     /\ ~trail[k].out.sent
                     /\ NamesMissing(trail[k].out.errors, {KeyAf})

\* A suite where B's url got the f of A's response.
C1_Witness ==
    \E k \in Ran :
        /\ TestOf(k).Url = UrlWithRef
        /\ ProducersBefore(k) # {}
        /\ trail[k].out.sent
        /\ trail[k].out.req.url = PathU \o <<"/">> \o U1

\* The tokens of the placeholders of text that are no keys of store.
Unknown(text, keys) ==
    { Trim(FindAll(text)[n]) : n \in 1..Len(FindAll(text)) } \ keys

\* The keys of the store when the url and the request headers are resolved.
KeysAtUrl(k) ==
    (DOMAIN trail[k].before)
    \cup (IF TestOf(k).Body = Null THEN {}
          ELSE { TestOf(k).Name
                 \o <<".", "r", "e", "q", "u", "e", "s", "t", ".", "b", "o", "d", "y", ".">>
                 \o x : x \in DOMAIN flatten(TestOf(k).Body, <<>>, 0) })

\* The keys of the store when the expected response headers are resolved.
KeysAtHeaders(k) ==
    KeysAtUrl(k)
    \cup { TestOf(k).Name \o <<".", "h", "e", "a", "d", "e", "r", ".">> \o h :
             h \in DOMAIN trail[k].resp.Header }

\* The keys of the store when the expected body of an object is resolved.
KeysAtBody(k) ==
    KeysAtHeaders(k)
    \cup DOMAIN flatten(Unmarshal(trail[k].resp.Body).v, TestOf(k).Name, 0)

FailedNaming(k, tokens) ==
    /\ trail[k].out.res = "Failed"
    /\ NamesMissing(trail[k].out.errors, tokens)
    /\ \E n \in 1..Len(failed) :
          failed[n].Name = TestOf(k).Name /\ NamesMissing(failed[n].Errors, tokens)

BodyResolves(k) ==
    TestOf(k).Body = Null
    \/ Unknown(Marshal(TestOf(k).Body), DOMAIN trail[k].before) = {}

\* The request side: a missing token in the request body, else in the url,
\* else in a request header.
MissingInRequest(k) ==
    /\ ~BodyResolves(k) =>
          FailedNaming(k, Unknown(Marshal(TestOf(k).Body), DOMAIN trail[k].before))
    /\ (BodyResolves(k) /\ Unknown(TestOf(k).Url, KeysAtUrl(k)) # {}) =>
          FailedNaming(k, Unknown(TestOf(k).Url, KeysAtUrl(k)))
    /\ \A h \in DOMAIN TestOf(k).Headers :
          (/\ BodyResolves(k)
           /\ Unknown(TestOf(k).Url, KeysAtUrl(k)) = {}
           /\ validMethod(TestOf(k).Method)
           /\ Unknown(TestOf(k).Headers[h], KeysAtUrl(k)) # {})
          => FailedNaming(k, UNION { Unknown(TestOf(k).Headers[g], KeysAtUrl(k)) :
                                       g \in DOMAIN TestOf(k).Headers })

\* The expected body, resolved when the payload decodes to an object.
MissingInExpectedBody(k) ==
    (/\ Answered(k)
     /\ Kind(TestOf(k).ExpBody) = "obj"
     /\ Unmarshal(trail[k].resp.Body).ok
     /\ Kind(Unmarshal(trail[k].resp.Body).v) = "obj"
     /\ Unknown(Marshal(TestOf(k).ExpBody), KeysAtBody(k)) # {})
    => FailedNaming(k, Unknown(Marshal(TestOf(k).ExpBody), KeysAtBody(k)))

\* An expected response header h of test k is resolved (the response carries
\* h) and its value has a token that is no key of the store.
MissingInExpectedHeader(k, h) ==
    /\ Answered(k)
    /\ CanonicalHeaderKey(h) \in DOMAIN trail[k].resp.Header
    /\ Unknown(TestOf(k).ExpHeaders[h], KeysAtHeaders(k)) # {}

\* C2, as amended: a missing token in the request body, the url, a request
\* header value or the expected body fails the test with an error naming the
\* token the resolver looked up; a missing token in an expected response
\* header value keeps the test from passing with the error "Invalid expected
\* response header template <template>", which does not name the token.
C2_MissingTokenFails ==
    \A k \in Ran :
        /\ MissingInRequest(k)
        /\ MissingInExpectedBody(k)
        /\ \A h \in DOMAIN TestOf(k).ExpHeaders :
              MissingInExpectedHeader(k, h) =>
                 /\ trail[k].out.res # "Passed"
                 /\ \E n \in 1..Len(trail[k].out.errors) :
                       /\ trail[k].out.errors[n].k
                             = "Invalid expected response header template"
                       /\ trail[k].out.errors[n].v = TestOf(k).ExpHeaders[h]
                 /\ ~NamesMissing(trail[k].out.errors,
                                  Unknown(TestOf(k).ExpHeaders[h], KeysAtHeaders(k)))

\* Tests with a missing token in the url, in the expected body and in an
\* expected response header have run.
C2_Witness ==
    /\ \E k \in Ran :
          /\ BodyResolves(k)
          /\ Unknown(TestOf(k).Url, KeysAtUrl(k)) # {}
          /\ trail[k].out.res = "Failed"
    /\ \E k \in Ran : \E h \in DOMAIN TestOf(k).ExpHeaders :
          MissingInExpectedHeader(k, h) /\ trail[k].out.res = "Failed"

\* C2 as claimed: also a missing token in an expected response header value
\* fails the test with an error naming the token.
C2_AsClaimed ==
    \A k \in Ran :
        /\ MissingInRequest(k)
        /\ MissingInExpectedBody(k)
        /\ \A h \in DOMAIN TestOf(k).ExpHeaders :
              MissingInExpectedHeader(k, h) =>
                 FailedNaming(k, Unknown(TestOf(k).ExpHeaders[h], KeysAtHeaders(k)))

IsObjects(v) ==
    \/ Kind(v) = "obj"
    \/ Kind(v) = "arr" /\ \A i \in 1..Len(v[2]) : Kind(v[2][i]) = "obj"

\* Test k got the expected status and a payload that decodes to its expected
\* body, an object or an array of objects without placeholders, and expects
\* no headers.
MatchingAnswer(k) ==
    /\ Answered(k)
    /\ trail[k].resp.StatusCode = TestOf(k).StatusCode
    /\ DOMAIN TestOf(k).ExpHeaders = {}
    /\ IsObjects(TestOf(k).ExpBody)
    /\ FindAll(Marshal(TestOf(k).ExpBody)) = <<>>
    /\ Unmarshal(trail[k].resp.Body) = [ok |-> TRUE, v |-> TestOf(k).ExpBody]

HasDuplicateName ==
    \E i, j \in 1..Len(suite.Tests) :
        i # j /\ suite.Tests[i].Name = suite.Tests[j].Name

\* C4: a suite with two tests of the same name is rejected: ExecuteSuite
\* returns an error with an empty TestSuiteResult, and no request of any of
\* its tests reaches the transport.
C4_DuplicateNameRejected ==
    HasDuplicateName =>
        /\ pc \in {"load", "rejected"}
        /\ calls = <<>> /\ trail = <<>> /\ idx = 0
        /\ pc = "rejected" =>
              returned.err # NoErr /\ returned.result = EmptyResult

\* A suite whose second test repeats the name of an executable first test
\* has been rejected.
C4_Witness ==
    /\ pc = "rejected"
    /\ Len(suite.Tests) > 1
    /\ suite.Tests[1].Name = suite.Tests[2].Name
    /\ ~suite.Skip /\ ~suite.Tests[1].Skip
    /\ returned.err.k = "test case defined twice"

HasInvalidName ==
    \E i \in 1..Len(suite.Tests) :
        \/ suite.Tests[i].Name = <<>>
        \/ \E n \in 1..Len(suite.Tests[i].Name) : ~IsAlnum(suite.Tests[i].Name[n])

\* C5: a suite with a test whose name is empty or has a character that is
\* no ASCII letter or digit is rejected with an error before any request is
\* sent.
C5_InvalidNameRejected ==
    HasInvalidName =>
        /\ pc \in {"load", "rejected"}
        /\ calls = <<>>
        /\ pc = "rejected" => returned.err # NoErr

\* C6: a test that does not pass has exactly one Failed result, with at
\* least one error, and the suite goes on: every test before the current
\* position has been executed or skipped and the loop is never abandoned.
C6_ErrorsConfined ==
    /\ pc # "panic"
    /\ \A k \in Ran :
          trail[k].out.res # "Passed" =>
             /\ Cardinality({ n \in 1..Len(failed) :
                                 failed[n].Name = TestOf(k).Name }) = 1
             /\ \A n \in 1..Len(failed) :
                   failed[n].Name = TestOf(k).Name => Len(failed[n].Errors) >= 1
    /\ pc = "done" => returned.result.TotalTests = Len(suite.Tests)

Shape(v) == IF Kind(v) \in {"obj", "arr"} THEN Kind(v) ELSE "scalar"

\* The decoded payload of test k and its expected body differ in top-level
\* shape, or are arrays of different length.
ShapeMismatch(k) ==
    /\ Answered(k)
    /\ TestOf(k).ExpBody # Null
    /\ Unmarshal(trail[k].resp.Body).ok
    /\ \/ Shape(Unmarshal(trail[k].resp.Body).v) # Shape(TestOf(k).ExpBody)
       \/ /\ Kind(TestOf(k).ExpBody) = "arr"
          /\ Kind(Unmarshal(trail[k].resp.Body).v) = "arr"
          /\ Len(Unmarshal(trail[k].resp.Body).v[2]) # Len(TestOf(k).ExpBody[2])

\* The errors of the body comparison: not those of the status, of the
\* headers, nor the appended payload.
BodyErrors(errors) ==
    { n \in 1..Len(errors) :
        errors[n].k \notin { "Expected http but got http",
                             "Invalid expected response header template",
                             "Expected response header but got",
                             "Expected response header not present",
                             "Full response payload from server" } }

\* C7: when the decoded payload and the expected body differ in top-level
\* shape or are arrays of different length, the test is Failed and the body
\* comparison contributes exactly one error.
C7_ShapeMismatchOneError ==
    \A k \in Ran :
        ShapeMismatch(k) =>
            /\ trail[k].out.res = "Failed"
            /\ Cardinality(BodyErrors(trail[k].out.errors)) = 1

RequestBodyKey(name, path) ==
    name \o <<".", "r", "e", "q", "u", "e", "s", "t", ".", "b", "o", "d", "y", ".">>
    \o PathKey(path, TRUE)

\* C16: when the request body of a test resolves, every scalar leaf at path
\* p of the original body is in the store under <name>.request.body.<p>
\* with its value before substitution, and the url and the request headers
\* of the test are resolved with these entries; the body itself is resolved
\* against the store as it was before the test, without them.
C16_RequestBodyMemoized ==
    \A k \in Ran :
        TestOf(k).Body # Null =>
            IF BodyResolves(k)
            THEN \A pv \in LeafPaths(TestOf(k).Body) :
                    /\ RequestBodyKey(TestOf(k).Name, pv[1]) \in DOMAIN trail[k].out.store
                    /\ trail[k].out.store[RequestBodyKey(TestOf(k).Name, pv[1])] = pv[2]
                    /\ ~NamesMissing(trail[k].out.errors,
                                     {RequestBodyKey(TestOf(k).Name, pv[1])})
            ELSE /\ trail[k].out.res = "Failed"
                 /\ ~trail[k].out.sent
                 /\ trail[k].out.store = trail[k].before
                 /\ NamesMissing(trail[k].out.errors,
                                 Unknown(Marshal(TestOf(k).Body), DOMAIN trail[k].before))

UrlResolves(k) == Unknown(TestOf(k).Url, KeysAtUrl(k)) = {}

\* The header loop of test k is reached and one of its values has a token
\* that is no key of the store.
HeaderFails(k) ==
    /\ BodyResolves(k) /\ UrlResolves(k)
    /\ validMethod(TestOf(k).Method) /\ validUrl(TestOf(k).Url)
    /\ \E h \in DOMAIN TestOf(k).Headers :
          Unknown(TestOf(k).Headers[h], KeysAtUrl(k)) # {}

\* The resolution of the request body, of the url or of a request header
\* value of test k fails.
ResolutionFails(k) ==
    \/ ~BodyResolves(k)
    \/ BodyResolves(k) /\ ~UrlResolves(k)
    \/ HeaderFails(k)

\* C17: when the resolution of the request body, the url or a request
\* header value fails, the transport is not called for the test and the test
\* is Failed with the resolution error as its only error; the transport has
\* been called once for each of the other executed tests and for no other.
C17_ResolutionFailureNotSent ==
    /\ Len(calls) = Cardinality({ k \in Ran : trail[k].out.sent })
    /\ \A k \in Ran :
          ResolutionFails(k) =>
             /\ ~trail[k].out.sent
             /\ trail[k].out.res = "Failed"
             /\ Len(trail[k].out.errors) = 1
             /\ trail[k].out.errors[1].k = "missing template value for var"
             /\ trail[k].out.errors[1].w = ""
             /\ \E n \in 1..Len(failed) :
                   failed[n] = Failed(TestOf(k).Name, trail[k].out.errors)

\* A test whose url does not resolve and a test whose request header does
\* not resolve have both failed, and nothing was sent.
C17_Witness ==
    /\ \E k \in Ran : BodyResolves(k) /\ ~UrlResolves(k)
    /\ \E k \in Ran : HeaderFails(k)
    /\ Len(failed) = 2
    /\ calls = <<>>

IsSkipped(i) == suite.Skip \/ suite.Tests[i].Skip

\* The names of the skipped tests among the first n, in the order of the file.
RECURSIVE SkippedNames(_)
SkippedNames(n) ==
    IF n = 0 THEN <<>>
    ELSE SkippedNames(n - 1) \o (IF IsSkipped(n) THEN <<suite.Tests[n].Name>> ELSE <<>>)

\* The test named A is declared before test k and is skipped.
SkippedABefore(k) ==
    \E i \in 1..(trail[k].i - 1) : suite.Tests[i].Name = NA /\ IsSkipped(i)

\* C18: every test skipped by the flag of the suite or by its own flag has
\* the result Passed false, Skipped true, no errors, in the Skipped list; it
\* is not executed, the transport is called for executed tests only, and the
\* store goes unchanged from one executed test to the next whatever tests
\* are skipped in between, so that a later test whose url refers to A.f of
\* the skipped test A is Failed for the missing value without sending.
C18_SkipShortCircuits ==
    /\ skipped = [n \in 1..Len(SkippedNames(idx)) |->
                    [Passed |-> FALSE, Skipped |-> TRUE,
                     Name |-> SkippedNames(idx)[n], Errors |-> <<>>]]
    /\ Len(calls) = Cardinality({ k \in Ran : trail[k].out.sent })
    /\ extractedFields = IF trail = <<>> THEN <<>> ELSE trail[Len(trail)].out.store
    /\ \A k \in Ran :
          /\ ~IsSkipped(trail[k].i)
          /\ trail[k].before = IF k = 1 THEN <<>> ELSE trail[k - 1].out.store
          /\ (TestOf(k).Url = UrlWithRef /\ SkippedABefore(k)) =>
                /\ trail[k].out.res = "Failed"
                /\ ~trail[k].out.sent
                /\ NamesMissing(trail[k].out.errors, {KeyAf})

\* The test A was skipped and the later test B, whose url refers to A.f,
\* failed without a call of the transport.
C18_Witness ==
    /\ \E k \in Ran :
          /\ TestOf(k).Url = UrlWithRef /\ SkippedABefore(k)
          /\ trail[k].out.res = "Failed"
    /\ Len(skipped) = 1 /\ skipped[1].Name = NA /\ skipped[1].Skipped
    /\ Len(failed) = 1
    /\ calls = <<>>

\* The store holds every entry of the map fields.
Holds(store, fields) ==
    \A key \in DOMAIN fields : key \in DOMAIN store /\ store[key] = fields[key]

\* The fields of the decoded payload v of the test named name are in store:
\* those of an object under name, those of the object at index i of an array
\* under name[i].
FieldsStored(store, name, v) ==
    CASE Kind(v) = "obj" -> Holds(store, flatten(v, name, 0))
      [] Kind(v) = "arr" ->
            \A i \in 1..Len(v[2]) :
                Kind(v[2][i]) = "obj" =>
                    Holds(store, flatten(v[2][i],
                                         name \o <<"[">> \o Digits(i - 1) \o <<"]">>, 0))
      [] OTHER -> TRUE

\* C15: when a test has received a response whose payload is JSON, the
\* fields of the payload are in the store under the name of the test once the
\* test has finished, whether or not the test expects a body and whether or
\* not the status or the array length matched.
C15_ResponseFieldsStored ==
    \A k \in Ran :
        (Answered(k) /\ Unmarshal(trail[k].resp.Body).ok) =>
            FieldsStored(trail[k].out.store, TestOf(k).Name,
                         Unmarshal(trail[k].resp.Body).v)

-----------------------------------------------------------------------------
(* Properties of templateReplace (specification SpecTR). A placeholder is  *)
(* read here as the contract words it: "{{", a token without whitespace    *)
(* and braces with optional whitespace around it, "}}".                    *)

IsTokenChar(c) == ~IsSpace(c) /\ c \notin {"{", "}"}

RECURSIVE SkipToken(_, _)
SkipToken(s, i) ==
    IF i <= Len(s) /\ IsTokenChar(s[i]) THEN SkipToken(s, i + 1) ELSE i

NoPlaceholder == [end |-> 0, tok |-> <<>>]

PlaceholderFrom(s, p, q) ==
    IF q > p /\ CloseAt(s, SkipSpace(s, q))
    THEN [end |-> SkipSpace(s, q) + 1, tok |-> SubSeq(s, p, q - 1)]
    ELSE NoPlaceholder

\* The placeholder that starts at i: its last index and its token.
PlaceholderAt(s, i) ==
    IF OpenAt(s, i)
    THEN PlaceholderFrom(s, SkipSpace(s, i + 2), SkipToken(s, SkipSpace(s, i + 2)))
    ELSE NoPlaceholder

\* The tokens of the placeholders of s, from left to right.
RECURSIVE Tokens(_, _)
Tokens(s, i) ==
    IF i > Len(s) THEN <<>>
    ELSE IF PlaceholderAt(s, i).end = 0 THEN Tokens(s, i + 1)
    ELSE <<PlaceholderAt(s, i).tok>> \o Tokens(s, PlaceholderAt(s, i).end + 1)

\* The text of s outside its placeholders.
RECURSIVE Outside(_, _)
Outside(s, i) ==
    IF i > Len(s) THEN <<>>
    ELSE IF PlaceholderAt(s, i).end = 0 THEN <<s[i]>> \o Outside(s, i + 1)
    ELSE Outside(s, PlaceholderAt(s, i).end + 1)

\* s with every placeholder replaced by the stringified value of its token.
RECURSIVE Substituted(_, _, _)
Substituted(s, i, store) ==
    IF i > Len(s) THEN <<>>
    ELSE IF PlaceholderAt(s, i).end = 0
    THEN <<s[i]>> \o Substituted(s, i + 1, store)
    ELSE Sprint(store[PlaceholderAt(s, i).tok])
         \o Substituted(s, PlaceholderAt(s, i).end + 1, store)

HasBrace(text) == \E n \in 1..Len(text) : text[n] \in {"{", "}"}

TokenSet(s) == { Tokens(s, 1)[n] : n \in 1..Len(Tokens(s, 1)) }

\* C8: on a string with a placeholder whose token is not in the store,
\* templateReplace returns an error, and the string returned with it is s
\* itself, with no placeholder replaced.
C8_NoPartialSubstitution ==
    (trPc = "done" /\ ~(TokenSet(trS) \subseteq DOMAIN trStore)) =>
        trOut.err # NoErr /\ trOut.s = trS

\* C9: on a string all of whose placeholder tokens are keys of the store,
\* templateReplace succeeds and its result has no placeholder, whatever the
\* stored values are.
C9_NoPlaceholderRemains ==
    (trPc = "done" /\ TokenSet(trS) \subseteq DOMAIN trStore) =>
        trOut.err = NoErr /\ Tokens(trOut.s, 1) = <<>>

\* C10: on a string made of placeholders and brace-free text, with two or
\* more placeholders of distinct tokens that are all keys of the store (the
\* values brace-free), templateReplace succeeds and returns s with every
\* placeholder replaced by the stringified value of its own token.
C10_EachPlaceholderResolved ==
    (/\ trPc = "done"
     /\ Len(Tokens(trS, 1)) >= 2
     /\ Cardinality(TokenSet(trS)) = Len(Tokens(trS, 1))
     /\ TokenSet(trS) \subseteq DOMAIN trStore
     /\ ~HasBrace(Outside(trS, 1))
     /\ \A key \in DOMAIN trStore : ~HasBrace(Sprint(trStore[key])))
    => /\ trOut.err = NoErr
       /\ trOut.s = Substituted(trS, 1, trStore)

\* The token of a matched placeholder: the text between its "{{" and "}}"
\* without the whitespace around it.
ExactToken(match) == TrimSpace(SubSeq(match, 3, Len(match) - 2))

ExactTokens(s) == [n \in 1..Len(FindAll(s)) |-> ExactToken(FindAll(s)[n])]

\* The first token of toks that is no key of store.
FirstMissing(toks, store) ==
    toks[CHOOSE n \in 1..Len(toks) :
            /\ toks[n] \notin DOMAIN store
            /\ \A m \in 1..(n - 1) : toks[m] \in DOMAIN store]

\* C11: the key templateReplace looks up for a matched placeholder is the
\* text between the braces without the whitespace (spaces, tabs, newlines)
\* around it and with every character of the token kept: the call succeeds
\* when all these tokens are keys of the store, and otherwise its error names
\* the first of them that is not.
C11_LookupKeyIsExactToken ==
    (trPc = "done" /\ FindAll(trS) # <<>>) =>
        IF \A n \in 1..Len(ExactTokens(trS)) : ExactTokens(trS)[n] \in DOMAIN trStore
        THEN trOut.err = NoErr
        ELSE trOut.err = MissingErr(FirstMissing(ExactTokens(trS), trStore))

-----------------------------------------------------------------------------
(* Properties of flatten (specification SpecFL)                            *)

IsContainer(v) == Kind(v) \in {"obj", "arr"}

\* C12: the keys of flatten(m, prefix, 0) are, for every scalar leaf of m,
\* the path to the leaf with object keys joined with "." and an array index
\* i written "[i]" (under the prefix), at every depth.
C12_KeysArePaths ==
    (unitPc = "done" /\ IsContainer(unitCall.m)) =>
        DOMAIN unitOut = { UnderPrefix(unitCall.prefix, PathKey(pv[1], TRUE)) :
                             pv \in LeafPaths(unitCall.m) }

\* C13: flatten(m, prefix, 0) of an object or array has exactly one entry
\* per scalar leaf of m, and every scalar is the value of as many entries as
\* there are leaves holding it.
C13_NoScalarLost ==
    (unitPc = "done" /\ IsContainer(unitCall.m)) =>
        /\ Cardinality(DOMAIN unitOut) = Cardinality(LeafPaths(unitCall.m))
        /\ \A pv \in LeafPaths(unitCall.m) :
              Cardinality({ k \in DOMAIN unitOut : unitOut[k] = pv[2] })
              = Cardinality({ qv \in LeafPaths(unitCall.m) : qv[2] = pv[2] })

-----------------------------------------------------------------------------
(* Properties of the comparison (specification SpecCmp)                    *)

\* a and b differ at most in fields whose name is in names, at any depth.
RECURSIVE EqualButFor(_, _, _)
EqualButFor(a, b, names) ==
    IF Kind(a) = "obj" /\ Kind(b) = "obj"
    THEN \A k \in (DOMAIN a[2]) \cup (DOMAIN b[2]) :
            \/ k \in names
            \/ /\ k \in DOMAIN a[2] /\ k \in DOMAIN b[2]
               /\ EqualButFor(a[2][k], b[2][k], names)
    ELSE IF Kind(a) = "arr" /\ Kind(b) = "arr"
    THEN /\ Len(a[2]) = Len(b[2])
         /\ \A i \in 1..Len(a[2]) : EqualButFor(a[2][i], b[2][i], names)
    ELSE a = b

IgnoredNames == { unitCall.ignored[i] : i \in 1..Len(unitCall.ignored) }

\* C14: when the payload and the expected object differ only in fields
\* whose names are in ignoredFields (at any depth, whatever the field holds,
\* present on both sides or on one), the comparison returns no diff and the
\* test passes.
C14_IgnoredFieldsPass ==
    (unitPc = "done" /\ EqualButFor(unitCall.obj, unitCall.expected, IgnoredNames)) =>
        /\ unitOut.res = "Passed"
        /\ unitOut.errors = <<>>

\* C27: a test whose payload differs from its expected object in a field
\* whose name is not in ignoredFields is never Passed, whatever ignoredFields
\* holds (nothing, or a name with a regexp metacharacter) and whatever the
\* field is called.
C27_NoFalsePass ==
    (/\ unitPc = "done"
     /\ FindAll(Marshal(unitCall.expected)) = <<>>
     /\ ~EqualButFor(unitCall.obj, unitCall.expected, IgnoredNames)) =>
        unitOut.res # "Passed"

\* C30: when the expected body of test A holds "{{ A.f }}" in its field f,
\* the comparison reports no diff for f and no error, whatever scalar
\* (string, number, boolean) the payload holds in f.
C30_SelfReferenceMatches ==
    (/\ unitPc = "done"
     /\ Cf \in DOMAIN unitCall.expected[2]
     /\ unitCall.expected[2][Cf] = JStr(RefAf)
     /\ Cf \in DOMAIN unitCall.obj[2]
     /\ Kind(unitCall.obj[2][Cf]) \in {"str", "num", "bool"}) =>
        /\ \A n \in 1..Len(unitOut.errors) :
              /\ unitOut.errors[n] # Err("diff", MapSeg(Cf), "")
              /\ unitOut.errors[n].w # CompareWrap
        /\ unitOut.store[KeyAf] = unitCall.obj[2][Cf]

-----------------------------------------------------------------------------
(* Properties of Run (specification SpecRun)                               *)

\* C19: every call of ExecuteSuite starts with an empty store, whatever the
\* earlier calls have written; the first executed test of a call finds the
\* store empty, every other the store the previous one left, and the keys
\* after a test include the keys before it; a test whose url refers to A.f
\* when no test of its own call has given A.f is Failed for the missing
\* value, also when an earlier call has stored A.f.
C19_StorePerCallMonotone ==
    /\ pc = "load" => extractedFields = <<>> /\ trail = <<>>
    /\ pc \in {"run", "done", "panic"} =>
          extractedFields = IF trail = <<>> THEN <<>> ELSE trail[Len(trail)].out.store
    /\ \A k \in Ran :
          /\ trail[k].before = IF k = 1 THEN <<>> ELSE trail[k - 1].out.store
          /\ DOMAIN trail[k].before \subseteq DOMAIN trail[k].out.store
          /\ (TestOf(k).Url = UrlWithRef /\ ProducersBefore(k) = {}) =>
                /\ trail[k].out.res = "Failed"
                /\ NamesMissing(trail[k].out.errors, {KeyAf})

\* A first call has left A.f in its store, and in the second call the test
\* whose url refers to A.f has failed for the missing value.
C19_Witness ==
    /\ runPos = 1
    /\ KeyAf \in DOMAIN runStores[1]
    /\ \E k \in Ran :
          /\ TestOf(k).Url = UrlWithRef
          /\ trail[k].before = <<>>
          /\ NamesMissing(trail[k].out.errors, {KeyAf})

\* C20: Run returns true only if every file gave a result (none failed to
\* load, parse or validate) and no result has a failed test.
C20_RunTrueOnlyIfAllPass ==
    (runPc = "returned" /\ runReturned.ok) =>
        /\ Len(runResults) = Len(runFiles)
        /\ \A n \in 1..Len(runResults) : runResults[n].Failed = <<>>

-----------------------------------------------------------------------------
(* Properties of the result of ExecuteSuite and of the checks of a         *)
(* response (specification Spec)                                           *)

\* The positions in the file of the tests whose results are in list, in the
\* order of the list.
Positions(list) ==
    [n \in 1..Len(list) |->
        { i \in 1..Len(suite.Tests) : suite.Tests[i].Name = list[n].Name }]

InFileOrder(list) ==
    \A m, n \in 1..Len(list) :
        m < n => \A i \in Positions(list)[m] : \A j \in Positions(list)[n] : i < j

\* The number of results of the lists Passed, Failed and Skipped of r that
\* carry the name of test i.
ResultsOf(r, i) ==
    Cardinality({ n \in 1..Len(r.Passed) : r.Passed[n].Name = suite.Tests[i].Name })
    + Cardinality({ n \in 1..Len(r.Failed) : r.Failed[n].Name = suite.Tests[i].Name })
    + Cardinality({ n \in 1..Len(r.Skipped) : r.Skipped[n].Name = suite.Tests[i].Name })

\* C21: the TestSuiteResult that ExecuteSuite returns for a validated suite
\* partitions the tests: every declared test has exactly one result over the
\* lists Passed, Failed and Skipped, TotalTests is the number of declared
\* tests and the sum of the lengths of the three lists, and each list is in
\* declaration order.
C21_ResultPartitionsTests ==
    pc = "done" =>
        /\ returned.err = NoErr
        /\ \A i \in 1..Len(suite.Tests) : ResultsOf(returned.result, i) = 1
        /\ returned.result.TotalTests = Len(suite.Tests)
        /\ returned.result.TotalTests
              = Len(returned.result.Passed) + Len(returned.result.Failed)
                + Len(returned.result.Skipped)
        /\ \A n \in 1..Len(returned.result.Passed) :
              returned.result.Passed[n].Passed /\ ~returned.result.Passed[n].Skipped
        /\ \A n \in 1..Len(returned.result.Failed) :
              ~returned.result.Failed[n].Passed /\ ~returned.result.Failed[n].Skipped
        /\ \A n \in 1..Len(returned.result.Skipped) :
              ~returned.result.Skipped[n].Passed /\ returned.result.Skipped[n].Skipped
        /\ InFileOrder(returned.result.Passed)
        /\ InFileOrder(returned.result.Failed)
        /\ InFileOrder(returned.result.Skipped)

\* A returned result for a skipped test followed by a test that failed.
C21_Witness ==
    /\ pc = "done"
    /\ Len(suite.Tests) = 2
    /\ Len(returned.result.Skipped) = 1
    /\ Len(returned.result.Failed) = 1
    /\ returned.result.Failed[1].Name = suite.Tests[2].Name

\* The errors of kind among errors.
ErrorsOf(errors, kind) == { n \in 1..Len(errors) : errors[n].k = kind }

HeaderKey(name, h) == name \o <<".", "h", "e", "a", "d", "e", "r", ".">> \o h

\* The payload of test k is an object and so is its expected body, which
\* has no placeholder, and the two differ in the scalar at field fld, which
\* is not an ignored field.
WrongField(k, fld) ==
    /\ Kind(TestOf(k).ExpBody) = "obj"
    /\ FindAll(Marshal(TestOf(k).ExpBody)) = <<>>
    /\ Unmarshal(trail[k].resp.Body).ok
    /\ Kind(Unmarshal(trail[k].resp.Body).v) = "obj"
    /\ fld \in DOMAIN TestOf(k).ExpBody[2]
    /\ fld \in DOMAIN Unmarshal(trail[k].resp.Body).v[2]
    /\ Kind(TestOf(k).ExpBody[2][fld]) = "str"
    /\ Kind(Unmarshal(trail[k].resp.Body).v[2][fld]) = "str"
    /\ TestOf(k).ExpBody[2][fld] # Unmarshal(trail[k].resp.Body).v[2][fld]
    /\ \A n \in 1..Len(suite.IgnoredFields) : suite.IgnoredFields[n] # fld

WrongStatus(k) ==
    Answered(k) /\ trail[k].resp.StatusCode # TestOf(k).StatusCode

\* C22: a response with another status than expected adds one error, the
\* first of the test, and the test goes on: every response header is in the
\* store, an expected header that the response lacks is reported, and a
\* payload that differs from the expected object in a field that is not
\* ignored is reported as a diff of that field next to the status error.
C22_StatusMismatchGoesOn ==
    \A k \in Ran :
        WrongStatus(k) =>
            /\ trail[k].out.res # "Passed"
            /\ ErrorsOf(trail[k].out.errors, "Expected http but got http") = {1}
            /\ \A h \in DOMAIN trail[k].resp.Header :
                  /\ HeaderKey(TestOf(k).Name, h) \in DOMAIN trail[k].out.store
                  /\ trail[k].out.store[HeaderKey(TestOf(k).Name, h)]
                        = JStr(TrimSpace(Join(trail[k].resp.Header[h], <<",">>)))
            /\ \A h \in DOMAIN TestOf(k).ExpHeaders :
                  CanonicalHeaderKey(h) \notin DOMAIN trail[k].resp.Header =>
                     \E n \in ErrorsOf(trail[k].out.errors,
                                       "Expected response header not present") :
                        trail[k].out.errors[n].v = h
            /\ \A fld \in {Cf, Cg} :
                  WrongField(k, fld) =>
                     /\ trail[k].out.res = "Failed"
                     /\ \E n \in ErrorsOf(trail[k].out.errors, "diff") :
                           trail[k].out.errors[n].v = MapSeg(fld)

\* A test got another status than expected, a header and a payload whose
\* field f is not the expected one: it reports the status and the diff.
C22_Witness ==
    \E k \in Ran :
        /\ WrongStatus(k)
        /\ WrongField(k, Cf)
        /\ DOMAIN trail[k].resp.Header # {}
        /\ Len(trail[k].out.errors) = 3
        /\ trail[k].out.errors[1].k = "Expected http but got http"
        /\ trail[k].out.errors[2] = Err("diff", MapSeg(Cf), "")

\* The transport gave test k a response.
Received(k) == trail[k].out.sent /\ ~trail[k].resp.err

\* The errors of test k about its expected header h.
HeaderErrors(k, h) ==
    { n \in 1..Len(trail[k].out.errors) :
        \/ /\ trail[k].out.errors[n].k
                 \in { "Expected response header but got",
                       "Expected response header not present" }
           /\ trail[k].out.errors[n].v = h
        \/ /\ trail[k].out.errors[n].k = "Invalid expected response header template"
           /\ trail[k].out.errors[n].v = TestOf(k).ExpHeaders[h] }

\* The response of test k carries the expected header h and the expected
\* value, resolved against the store as it is once the response headers are
\* recorded, is the comma-joined value of the response.
HeaderAsExpected(k, h) ==
    /\ CanonicalHeaderKey(h) \in DOMAIN trail[k].resp.Header
    /\ Unknown(TestOf(k).ExpHeaders[h], KeysAtHeaders(k)) = {}
    /\ templateReplace(TestOf(k).ExpHeaders[h], trail[k].out.store).s
          = Join(trail[k].resp.Header[CanonicalHeaderKey(h)], <<",">>)

\* C23: once a response is received every header H of the response is in
\* the store under <name>.header.<H>, as the text of its values joined with
\* "," and trimmed, expected or not; and an expected header has exactly one
\* error when the response lacks it or its resolved expected value is not
\* the joined value of the response, and no error otherwise.
C23_HeadersRecordedAndChecked ==
    \A k \in Ran :
        Received(k) =>
            /\ \A h \in DOMAIN trail[k].resp.Header :
                  /\ HeaderKey(TestOf(k).Name, h) \in DOMAIN trail[k].out.store
                  /\ trail[k].out.store[HeaderKey(TestOf(k).Name, h)]
                        = JStr(TrimSpace(Join(trail[k].resp.Header[h], <<",">>)))
            /\ \A h \in DOMAIN TestOf(k).ExpHeaders :
                  Cardinality(HeaderErrors(k, h))
                     = IF HeaderAsExpected(k, h) THEN 0 ELSE 1

\* A response with two values of H has been recorded for a test that does
\* not expect H, and a test that expects h: {{ A.f }} has resolved it and
\* got one error for a response whose H has another value.
C23_Witness ==
    /\ \E k \in Ran :
          /\ Received(k)
          /\ DOMAIN TestOf(k).ExpHeaders = {}
          /\ HeaderKey(TestOf(k).Name, CH) \in DOMAIN trail[k].out.store
          /\ trail[k].out.store[HeaderKey(TestOf(k).Name, CH)]
                = JStr(U1 \o <<",">> \o U2)
    /\ \E k \in Ran : \E h \in DOMAIN TestOf(k).ExpHeaders :
          /\ Received(k)
          /\ h # CanonicalHeaderKey(h)
          /\ CanonicalHeaderKey(h) \in DOMAIN trail[k].resp.Header
          /\ Unknown(TestOf(k).ExpHeaders[h], KeysAtHeaders(k)) = {}
          /\ ~HeaderAsExpected(k, h)
          /\ Cardinality(HeaderErrors(k, h)) = 1

\* Test k expects no body and the payload of its response was read.
NoBodyExpected(k) == Answered(k) /\ TestOf(k).ExpBody = Null

\* The status of the response of test k is the expected one and every
\* expected header is in the response with the expected value.
StatusAndHeadersOk(k) ==
    /\ trail[k].resp.StatusCode = TestOf(k).StatusCode
    /\ \A h \in DOMAIN TestOf(k).ExpHeaders : HeaderAsExpected(k, h)

\* C24: for a test without expected body, a payload that is not empty adds
\* one error and the test is Failed; with an empty payload nothing is added
\* for the body, and the test is Passed exactly when the status and the
\* expected headers gave no error, and Failed otherwise.
C24_NoExpectedBody ==
    \A k \in Ran :
        NoBodyExpected(k) =>
            IF Len(trail[k].resp.Body) # 0
            THEN /\ trail[k].out.res = "Failed"
                 /\ Cardinality(ErrorsOf(trail[k].out.errors,
                                         "Expected response payload but got")) = 1
                 /\ Cardinality(BodyErrors(trail[k].out.errors)) = 1
                 /\ \E n \in 1..Len(failed) : failed[n].Name = TestOf(k).Name
            ELSE /\ BodyErrors(trail[k].out.errors) = {}
                 /\ trail[k].out.res \in {"Passed", "Failed"}
                 /\ trail[k].out.res = "Passed" <=> StatusAndHeadersOk(k)
                 /\ trail[k].out.res = "Passed" <=> trail[k].out.errors = <<>>

\* A test without expected body has got the expected status and a payload
\* and has failed with the one error for the payload.
C24_Witness ==
    \E k \in Ran :
        /\ NoBodyExpected(k) /\ Len(trail[k].resp.Body) # 0
        /\ StatusAndHeadersOk(k)
        /\ trail[k].out.res = "Failed"
        /\ Len(trail[k].out.errors) = 1
        /\ trail[k].out.errors[1].k = "Expected response payload but got"

\* The payload of test k and its expected body are arrays of different
\* lengths.
LengthsDiffer(k) ==
    /\ Answered(k)
    /\ Kind(TestOf(k).ExpBody) = "arr"
    /\ Unmarshal(trail[k].resp.Body).ok
    /\ Kind(Unmarshal(trail[k].resp.Body).v) = "arr"
    /\ Len(Unmarshal(trail[k].resp.Body).v[2]) # Len(TestOf(k).ExpBody[2])

\* The keys of the elements of an array payload of the test called name.
ElementKeys(store, name) ==
    { key \in DOMAIN store : HasPrefixAt(key, 1, name \o <<"[">>) }

\* C25: when the payload and the expected body are arrays of different
\* lengths the test is Failed, the body comparison contributes the one
\* error of the length mismatch and no diff of an element, and no field of
\* an element is written to the store.
C25_ArrayLengthMismatch ==
    \A k \in Ran :
        LengthsDiffer(k) =>
            /\ trail[k].out.res = "Failed"
            /\ Cardinality(BodyErrors(trail[k].out.errors)) = 1
            /\ Cardinality(ErrorsOf(trail[k].out.errors,
                  "The number of array elements in response and expectedResponse don't match")) = 1
            /\ ErrorsOf(trail[k].out.errors, "diff") = {}
            /\ ElementKeys(trail[k].out.store, TestOf(k).Name)
                  = ElementKeys(trail[k].before, TestOf(k).Name)
            /\ \A key \in ElementKeys(trail[k].before, TestOf(k).Name) :
                  trail[k].out.store[key] = trail[k].before[key]

\* A test expecting two elements has got an array of one element, which is
\* the first expected one, and has failed with no key of an element in the
\* store.
C25_Witness ==
    \E k \in Ran :
        /\ LengthsDiffer(k)
        /\ Len(TestOf(k).ExpBody[2]) = 2
        /\ Len(Unmarshal(trail[k].resp.Body).v[2]) = 1
        /\ trail[k].out.res = "Failed"
        /\ ElementKeys(trail[k].out.store, TestOf(k).Name) = {}

\* C26: a test whose payload was read and that has an error of the status,
\* of a header or of the body is Failed and the last of its errors is the
\* payload of the response; a test without error is Passed.
C26_PayloadIsLastError ==
    \A k \in Ran :
        Answered(k) =>
            IF trail[k].out.errors # <<>>
            THEN /\ trail[k].out.res = "Failed"
                 /\ trail[k].out.errors[Len(trail[k].out.errors)]
                       = Err("Full response payload from server", trail[k].resp.Body, "")
            ELSE trail[k].out.res = "Passed"

\* The keys test k added or overwrote.
Written(k) ==
    { key \in DOMAIN trail[k].out.store :
        \/ key \notin DOMAIN trail[k].before
        \/ trail[k].out.store[key] # trail[k].before[key] }

\* key is in the namespace of the test called name.
InNamespace(key, name) ==
    \/ HasPrefixAt(key, 1, name \o <<".">>)
    \/ HasPrefixAt(key, 1, name \o <<"[">>)

\* C28: in a validated suite a test only adds or overwrites keys that start
\* with its name followed by "." or "[", and every entry of the store that is
\* not in its namespace is still there with the value it had.
C28_NamespaceIsolation ==
    \A k \in Ran :
        /\ \A key \in Written(k) : InNamespace(key, TestOf(k).Name)
        /\ \A key \in DOMAIN trail[k].before :
              ~InNamespace(key, TestOf(k).Name) =>
                 /\ key \in DOMAIN trail[k].out.store
                 /\ trail[k].out.store[key] = trail[k].before[key]

\* C29: a test that fails before its request is handed to the transport
\* (a placeholder of the body, of the url or of a request header does not
\* resolve, or the request cannot be constructed) leaves the store as it was
\* before the test.
C29_FailedPreparationKeepsStore ==
    \A k \in Ran :
        ~trail[k].out.sent =>
            /\ trail[k].out.res = "Failed"
            /\ trail[k].out.store = trail[k].before

====
